---- MODULE Spec2Model ----
(***************************************************************************)
(* Model of species.analysis.retrieval.AtmosphericRetrieval: the schema    *)
(* builder (set_parameters), the sampler driver (run_multinest) and the    *)
(* two closures it hands to the sampler (prior, loglike).                  *)
(*                                                                         *)
(* Numbers.  Python floats are modelled in fixed point.  Dimensionless     *)
(* quantities (unit-cube coordinates, logg, radius, abundances, ...) are   *)
(* integers in units of 1/Milli; temperatures are integers in Kelvin.      *)
(* A product x*u with u a unit-cube coordinate is (x*u) \div Milli, which  *)
(* rounds monotonically like the floating-point product does.  Floats     *)
(* that can be non-finite are records [k, big, v] with k one of fin, nan,  *)
(* pinf, ninf; they follow the IEEE rules numpy follows.                   *)
(***************************************************************************)
EXTENDS Integers, Sequences, FiniteSets, TLC

VARIABLES
    cloud_species,  \* self.cloud_species (a list; constructing Radtrans converts its names)
    line_species,   \* self.line_species (a list)
    parameters,     \* self.parameters (a list of names)
    bounds,         \* the caller's bounds dictionary (run_multinest deletes keys in place)
    chemistry,      \* arguments of the run_multinest call that started the sampler
    quenching,
    pt_profile,
    cube_index,     \* the name -> index dictionary of run_multinest
    pc,             \* "idle" | "raised" | "sampling"
    log,            \* the externally visible effects of run_multinest, in order
    params_json,    \* content of params.json (<<>> while absent)
    history,        \* the calls made on the object: name, arguments, outcome, effects
    cube,           \* the cube of the evaluation in progress
    ev,             \* "none" | "prior" | "prior_raised" | "returned" | "raised"
    result,         \* what loglike returned (a float record)
    err,            \* the exception an evaluation raised ("none" otherwise)
    rt_calls,       \* radiative-transfer routines invoked by the evaluation
    stages,         \* pipeline stages the evaluation ran, in order
    ext,            \* the unit cube proposed and what the collaborators returned
    plotting,       \* the plotting argument of run_multinest
    figure,         \* the artists in pyplot's current figure (module-global state)
    pdf,            \* content of the file 'spectrum.pdf' (<<>> while absent)
    procs,          \* the evaluations the sampler has in progress side by side
    spectrum,       \* self.spectrum: per dataset the columns, and the bin widths
    pressure,       \* self.pressure (a logspace array)
    rt_pressure     \* the array handed to rt_object.setup_opa_structure

vars == <<cloud_species, line_species, parameters, bounds, chemistry, quenching,
          pt_profile, cube_index, pc, log, params_json, history, cube, ev,
          result, err, rt_calls, stages, ext, plotting, figure, pdf, procs,
          spectrum, pressure, rt_pressure>>

objvars == <<spectrum, pressure>>

evalvars == <<cube, ev, result, err, rt_calls, stages, ext>>

concvars == <<plotting, figure, pdf, procs>>

(***************************************************************************)
(* Bounds of the model.                                                    *)
(***************************************************************************)
MaxCalls == 2      \* calls of set_parameters / run_multinest on one object
CubeLevels == 2    \* unit-cube coordinates are k/CubeLevels, k < CubeLevels
MaxLen == 3        \* rows of a dataset handed to the constructor

(***************************************************************************)
(* Fixed point.                                                            *)
(***************************************************************************)
Milli == 10 * 100      \* dimensionless fixed point: 1.0 is Milli

\* a float: finite (value big*10^6 + v), NaN, +inf or -inf
F(n) == [k |-> "fin", big |-> 0, v |-> n]

NaN == [k |-> "nan", big |-> 0, v |-> 0]

PInf == [k |-> "pinf", big |-> 0, v |-> 0]

NInf == [k |-> "ninf", big |-> 0, v |-> 0]

None == <<>>

EmptyDict == [k \in {} |-> None]

Abs(x) == IF x < 0 THEN -x ELSE x

Range(s) == {s[i] : i \in 1..Len(s)}

RECURSIVE SeqSum(_)
SeqSum(s) == IF s = <<>> THEN 0 ELSE s[1] + SeqSum(Tail(s))

(***************************************************************************)
(* Configurations the model draws from.                                    *)
(***************************************************************************)
SpectrumKeys == <<"GRAVITY", "SPHERE">>

\* the objects the driver specification constructs: cloud and line species
ObjectChoices ==
    { [cloud |-> <<>>, line |-> <<"H2O", "Na", "K">>],
      [cloud |-> <<"MgSiO3(c)_cd", "Fe(c)_cd">>, line |-> <<"H2O">>],
      [cloud |-> <<"Al2O3(c)_cd">>, line |-> <<>>],
      [cloud |-> <<>>, line |-> <<>>] }

ChemistryChoices == {"equilibrium", "free"}

ProfileChoices == {"molliere", "free", "monotonic"}

FullBounds ==
    ("logg" :> <<3000, 5000>>) @@ ("fsed" :> <<1000, 5000>>)
        @@ ("fe_fraction" :> <<-1000, 0>>) @@ ("c_h_ratio" :> <<100, 900>>)
        @@ ("GRAVITY" :> << <<800, 1200>>, None, None >>)
        @@ ("SPHERE" :> << None, <<-1000, 1000>>, <<-10, 10>> >>)

BoundsChoices == { EmptyDict, FullBounds }

\* an error-inflation bound for the dataset that has an inverse covariance
ErrorBounds == ("GRAVITY" :> << None, <<-1000, 0>>, None >>)

(***************************************************************************)
(* __init__: the dataset bundle (self.spectrum) and the pressure levels    *)
(***************************************************************************)
\* wavel_bins[-1] = wavel_bins[-2] is an IndexError on an array of one element
wavel_bins_raises(wavel) == Len(wavel) < 2

\* wavel_bins = np.zeros_like(wavel_data); wavel_bins[:-1] = np.diff(wavel_data);
\* wavel_bins[-1] = wavel_bins[-2]
wavel_bins(wavel) ==
    LET n == Len(wavel)
        diffs == [i \in 1..n |-> IF i < n THEN wavel[i + 1] - wavel[i] ELSE 0]
    IN  [diffs EXCEPT ![n] = diffs[n - 1]]

\* the loop over self.spectrum.items(): the bin widths are appended to every
\* dataset in turn; the first array of one element ends the loop with an
\* IndexError and leaves the datasets after it as they were
RECURSIVE append_wavel_bins(_, _)
append_wavel_bins(spec, keys) ==
    IF keys = <<>> THEN [spectrum |-> spec, raised |-> FALSE]
    ELSE IF wavel_bins_raises(spec[Head(keys)].wavel)
    THEN [spectrum |-> spec, raised |-> TRUE]
    ELSE append_wavel_bins(
             [spec EXCEPT ![Head(keys)].bins = wavel_bins(spec[Head(keys)].wavel)],
             Tail(keys))

\* a dataset as self.object.get_spectrum() returns it: wavelength, flux and
\* error columns, inverse covariance (or None), spectral resolution
Dataset(wavel, flux, error, cov_inv, spec_res) ==
    [wavel |-> wavel, flux |-> flux, error |-> error, cov_inv |-> cov_inv,
     spec_res |-> spec_res, bins |-> None]

\* the bundle of the object whose runs are explored, as get_spectrum returns it
SpectrumData ==
    ("GRAVITY" :> Dataset(<<2000, 4000>>, <<2000, 3000>>, <<500, 500>>,
                          << <<4, 0>>, <<0, 4>> >>, 500))
    @@ ("SPHERE" :> Dataset(<<3000, 5000>>, <<3000, 3000>>, <<1000, 500>>, None, 30))

\* self.spectrum of that object once __init__ has appended the bin widths
Spectrum == append_wavel_bins(SpectrumData, SpectrumKeys).spectrum

\* np.logspace(start, stop, num): the array is kept by the arguments that
\* determine it; element i (from 0) is 10**(start + (stop-start)*i/(num-1))
logspace(start, stop, num) == [start |-> start, stop |-> stop, num |-> num]

\* log10 of element i (from 0) of a logspace array, times (num - 1)
log_level(a, i) == a.start * (a.num - 1) + (a.stop - a.start) * i

\* n_pressure
n_pressure(clouds) == IF Len(clouds) > 0 THEN 1440 ELSE 180

\* self.pressure = np.logspace(-6, 3, n_pressure)
pressure_levels(clouds) == logspace(-6, 3, n_pressure(clouds))

\* array[::step], a strided view of the array
strided(a, step) == [base |-> a, step |-> step]

\* the number of elements of array[::step]
strided_size(view) == (view.base.num + view.step - 1) \div view.step

\* log10 of element j (from 0) of array[::step], times (num - 1)
strided_level(view, j) == log_level(view.base, j * view.step)

(***************************************************************************)
(* set_parameters                                                          *)
(***************************************************************************)
\* f't{i}' for i in range(15)
KnotCount == 15

KnotName(i) == "t" \o ToString(i)

KnotNames == [i \in 1..KnotCount |-> KnotName(i - 1)]

\* mutant: `or` in place of `and`
set_parameters_raises_or(clouds, chem) ==
    Len(clouds) # 0 \/ chem # "equilibrium"

\* the check at the top of set_parameters
set_parameters_raises(clouds, chem) ==
    Len(clouds) # 0 /\ chem # "equilibrium"

\* mutant: the three 'molliere' knots appended in transform order t3, t2, t1
pt_parameters_reordered(pt) ==
    IF pt = "molliere"
    THEN <<"tint", "t3", "t2", "t1", "alpha", "log_delta">>
    ELSE IF pt \in {"free", "monotonic"}
    THEN KnotNames \o (IF pt = "free" THEN <<"gamma_r", "beta_r">> ELSE <<>>)
    ELSE <<>>

pt_parameters(pt) ==
    IF pt = "molliere"
    THEN <<"tint", "t1", "t2", "t3", "alpha", "log_delta">>
    ELSE IF pt \in {"free", "monotonic"}
    THEN KnotNames \o (IF pt = "free" THEN <<"gamma_r", "beta_r">> ELSE <<>>)
    ELSE <<>>

\* mutant: no parameter for the line species under free chemistry
abundance_parameters_equilibrium_only(chem, lines) ==
    IF chem = "equilibrium" THEN <<"metallicity", "c_o_ratio">> ELSE <<>>

\* the block under "abundance parameters"
abundance_parameters(chem, lines) ==
    IF chem = "equilibrium" THEN <<"metallicity", "c_o_ratio">>
    ELSE IF chem = "free" THEN lines
    ELSE <<>>

quench_parameters(quench) ==
    IF quench THEN <<"log_p_quench">> ELSE <<>>

\* mutant: mgsio3_fraction appended before fe_fraction
cloud_parameters_mgsio3_first(clouds) ==
    IF Len(clouds) > 0
    THEN (IF "MgSiO3(c)_cd" \in Range(clouds) THEN <<"mgsio3_fraction">> ELSE <<>>)
         \o (IF "Fe(c)_cd" \in Range(clouds) THEN <<"fe_fraction">> ELSE <<>>)
         \o (IF "Na2S(c)_cd" \in Range(clouds) THEN <<"na2s_fraction">> ELSE <<>>)
         \o (IF "KCL(c)_cd" \in Range(clouds) THEN <<"kcl_fraction">> ELSE <<>>)
         \o <<"fsed", "kzz", "sigma_lnorm">>
    ELSE <<>>

\* the block under "cloud parameters"
cloud_parameters(clouds) ==
    IF Len(clouds) > 0
    THEN (IF "Fe(c)_cd" \in Range(clouds) THEN <<"fe_fraction">> ELSE <<>>)
         \o (IF "MgSiO3(c)_cd" \in Range(clouds) THEN <<"mgsio3_fraction">> ELSE <<>>)
         \o (IF "Na2S(c)_cd" \in Range(clouds) THEN <<"na2s_fraction">> ELSE <<>>)
         \o (IF "KCL(c)_cd" \in Range(clouds) THEN <<"kcl_fraction">> ELSE <<>>)
         \o <<"fsed", "kzz", "sigma_lnorm">>
    ELSE <<>>

\* one of the three loops over self.spectrum: kind 1 scaling, 2 error, 3 wavelength
NuisancePrefix(kind) ==
    CASE kind = 1 -> "scaling_" [] kind = 2 -> "error_" [] kind = 3 -> "wavelength_"

has_nuisance(bnds, item, kind) ==
    item \in DOMAIN bnds /\ bnds[item][kind] # None

RECURSIVE nuisance_loop(_, _, _)
nuisance_loop(keys, bnds, kind) ==
    IF keys = <<>> THEN <<>>
    ELSE (IF has_nuisance(bnds, Head(keys), kind)
          THEN << NuisancePrefix(kind) \o Head(keys) >> ELSE <<>>)
         \o nuisance_loop(Tail(keys), bnds, kind)

nuisance_parameters(bnds) ==
    nuisance_loop(SpectrumKeys, bnds, 1) \o nuisance_loop(SpectrumKeys, bnds, 2)
        \o nuisance_loop(SpectrumKeys, bnds, 3)

\* everything one call appends to self.parameters
appended_parameters(clouds, lines, bnds, chem, quench, pt) ==
    <<"logg", "radius">> \o pt_parameters(pt) \o abundance_parameters(chem, lines)
        \o quench_parameters(quench) \o cloud_parameters(clouds)
        \o nuisance_parameters(bnds)

\* self.parameters after a call that did not raise
set_parameters(params, clouds, lines, bnds, chem, quench, pt) ==
    params \o appended_parameters(clouds, lines, bnds, chem, quench, pt)

(***************************************************************************)
(* run_multinest, up to the call of pymultinest.run                        *)
(***************************************************************************)
\* mutant: the comparison inverted
run_multinest_raises_inverted(chem, quench) ==
    quench /\ chem = "equilibrium"

\* the check before set_parameters is called
run_multinest_raises(chem, quench) ==
    quench /\ chem # "equilibrium"

\* cube_index = {}; for i, item in enumerate(self.parameters): cube_index[item] = i
build_cube_index(params) ==
    [name \in Range(params) |->
        CHOOSE i \in 0..(Len(params) - 1) :
            /\ params[i + 1] = name
            /\ \A j \in 0..(Len(params) - 1) : params[j + 1] = name => j <= i]

CloudBoundKeys ==
    {"fe_fraction", "mgsio3_fraction", "na2s_fraction", "kcl_fraction",
     "fsed", "kzz", "sigma_lnorm"}

RatioBoundKeys == {"c_h_ratio", "o_h_ratio"}

\* mutant: only the cloud block
strip_bounds_clouds_only(bnds, clouds, chem) ==
    LET drop == IF Len(clouds) = 0 THEN CloudBoundKeys ELSE {}
    IN  [k \in (DOMAIN bnds) \ drop |-> bnds[k]]

\* the two blocks of `del bounds[...]`
strip_bounds(bnds, clouds, chem) ==
    LET drop == (IF Len(clouds) = 0 THEN CloudBoundKeys ELSE {})
                \cup (IF chem # "free" THEN RatioBoundKeys ELSE {})
    IN  [k \in (DOMAIN bnds) \ drop |-> bnds[k]]

\* mutant: the names left as the caller gave them
converted_name_kept(item) == item

\* Radtrans(cloud_species=self.cloud_species, ...) keeps the list it is given
\* and converts its names in place: the opacity-mode suffix is dropped
converted_name(item) ==
    CASE item = "Fe(c)_cd" -> "Fe(c)"
      [] item = "MgSiO3(c)_cd" -> "MgSiO3(c)"
      [] item = "Na2S(c)_cd" -> "Na2S(c)"
      [] item = "KCL(c)_cd" -> "KCL(c)"
      [] item = "Al2O3(c)_cd" -> "Al2O3(c)"
      [] OTHER -> item

\* self.cloud_species once rt_object exists
converted_cloud_species(clouds) ==
    [i \in 1..Len(clouds) |-> converted_name(clouds[i])]

\* mutant: every 3rd level also with clouds
setup_pressure_every_third(levels, clouds) ==
    strided(levels, 3)

\* rt_object.setup_opa_structure(self.pressure[::24]) with clouds,
\* rt_object.setup_opa_structure(self.pressure[::3]) without
setup_pressure(levels, clouds) ==
    IF Len(clouds) > 0 THEN strided(levels, 24) ELSE strided(levels, 3)

NoRt == [raises |-> FALSE, flux |-> <<>>]

NoExt == [unit |-> <<>>, temp |-> <<>>, rt |-> NoRt, ratio |-> <<>>]

NoEval ==
    /\ cube = <<>>
    /\ ev = "none"
    /\ result = None
    /\ err = "none"
    /\ rt_calls = <<>>
    /\ stages = <<>>
    /\ ext = NoExt

\* the evaluations the sampler may have in progress at the same time
Evaluations == {"a", "b"}

\* an evaluation the sampler has not started
NotStarted ==
    [pc |-> "idle", unit |-> <<>>, cube |-> <<>>, temp |-> <<>>, ret |-> None,
     err |-> "none"]

\* nothing drawn, no file, no evaluation in progress
NoPlot ==
    /\ figure = {}
    /\ pdf = <<>>
    /\ procs = [e \in Evaluations |-> NotStarted]

\* the object as __init__ leaves it
Init ==
    /\ \E o \in ObjectChoices :
          /\ cloud_species = o.cloud
          /\ line_species = o.line
    /\ parameters = <<>>
    /\ bounds = EmptyDict
    /\ chemistry = ""
    /\ quenching = FALSE
    /\ pt_profile = ""
    /\ cube_index = EmptyDict
    /\ pc = "idle"
    /\ log = <<>>
    /\ params_json = <<>>
    /\ history = <<>>
    /\ NoEval
    /\ plotting = FALSE
    /\ NoPlot
    /\ spectrum = Spectrum
    /\ pressure = pressure_levels(cloud_species)
    /\ rt_pressure = None

Call(op, b, chem, quench, pt, raised, effects) ==
    [op |-> op, bounds |-> b, chemistry |-> chem, quenching |-> quench,
     pt_profile |-> pt, raised |-> raised, effects |-> effects,
     before |-> parameters, files_before |-> params_json]

\* a direct call of the public method set_parameters
call_set_parameters(b, chem, quench, pt) ==
    /\ pc \in {"idle", "raised"}
    /\ Len(history) < MaxCalls
    /\ history' = Append(history, Call("set_parameters", b, chem, quench, pt,
                                       set_parameters_raises(cloud_species, chem),
                                       <<>>))
    /\ IF set_parameters_raises(cloud_species, chem)
       THEN /\ pc' = "raised"
            /\ UNCHANGED parameters
       ELSE /\ pc' = "idle"
            /\ parameters' = set_parameters(parameters, cloud_species, line_species,
                                            b, chem, quench, pt)
    /\ bounds' = b
    /\ UNCHANGED <<cloud_species, line_species, chemistry, quenching, pt_profile,
                   cube_index, log, params_json, rt_pressure>>
    /\ UNCHANGED objvars
    /\ UNCHANGED evalvars
    /\ UNCHANGED concvars

\* mutant: the sampler started before the two files are written
run_multinest_effects_sampler_first(raises) ==
    IF raises THEN <<"mkdir">>
    ELSE <<"mkdir", "pymultinest.run", "params.json", "radtrans.json">>

\* what run_multinest does outside the object, in order, up to pymultinest.run
run_multinest_effects(raises) ==
    IF raises THEN <<"mkdir">>
    ELSE <<"mkdir", "params.json", "radtrans.json", "pymultinest.run">>

\* run_multinest from its first line to the call of pymultinest.run
call_run_multinest(b, chem, quench, pt) ==
    /\ pc \in {"idle", "raised"}
    /\ Len(history) < MaxCalls
    /\ LET raises == run_multinest_raises(chem, quench)
                     \/ set_parameters_raises(cloud_species, chem)
           params == set_parameters(parameters, cloud_species, line_species,
                                    b, chem, quench, pt)
       IN  /\ history' = Append(history, Call("run_multinest", b, chem, quench, pt,
                                              raises, run_multinest_effects(raises)))
           /\ log' = log \o run_multinest_effects(raises)
           /\ IF raises
              THEN /\ pc' = "raised"
                   /\ bounds' = b
                   /\ UNCHANGED <<parameters, cube_index, params_json, chemistry,
                                  quenching, pt_profile, cloud_species, rt_pressure>>
              ELSE /\ pc' = "sampling"
                   /\ parameters' = params
                   /\ cube_index' = build_cube_index(params)
                   /\ bounds' = strip_bounds(b, cloud_species, chem)
                   /\ params_json' = params
                   /\ chemistry' = chem
                   /\ quenching' = quench
                   /\ pt_profile' = pt
                   /\ cloud_species' = converted_cloud_species(cloud_species)
                   /\ rt_pressure' = setup_pressure(pressure, cloud_species)
    /\ UNCHANGED line_species
    /\ UNCHANGED objvars
    /\ UNCHANGED evalvars
    /\ UNCHANGED concvars

\* pymultinest.run returns and with it run_multinest
sampler_returns ==
    /\ pc = "sampling"
    /\ ev = "none"
    /\ pc' = "idle"
    /\ UNCHANGED <<cloud_species, line_species, parameters, bounds, chemistry,
                   quenching, pt_profile, cube_index, log, params_json, history,
                   rt_pressure>>
    /\ UNCHANGED objvars
    /\ UNCHANGED evalvars
    /\ UNCHANGED concvars

Next ==
    \/ \E b \in BoundsChoices, chem \in ChemistryChoices, quench \in BOOLEAN,
          pt \in ProfileChoices : call_set_parameters(b, chem, quench, pt)
    \/ \E b \in BoundsChoices, chem \in ChemistryChoices, quench \in BOOLEAN,
          pt \in ProfileChoices : call_run_multinest(b, chem, quench, pt)
    \/ sampler_returns

Spec == Init /\ [][Next]_vars

(***************************************************************************)
(* The constructor applied to datasets of one row and more                 *)
(***************************************************************************)
\* wavelengths (1/Milli micron) the rows of a dataset are drawn from
WavelChoices == {1000, 2000, 3000, 5000}

\* the strictly increasing wavelength columns of 1..MaxLen rows
WavelColumns ==
    UNION { { w \in [1..n -> WavelChoices] : \A i \in 1..(n - 1) : w[i] < w[i + 1] } :
              n \in 1..MaxLen }

\* a dataset with this wavelength column, no covariance
DatasetOf(wavel) ==
    Dataset(wavel, [i \in 1..Len(wavel) |-> 3000], [i \in 1..Len(wavel) |-> 500],
            None, 30)

\* the arguments of __init__ and what the database returns for the object
InitNew ==
    /\ \E o \in ObjectChoices :
          /\ cloud_species = o.cloud
          /\ line_species = o.line
    /\ \E g \in WavelColumns, h \in WavelColumns :
          spectrum = ("GRAVITY" :> DatasetOf(g)) @@ ("SPHERE" :> DatasetOf(h))
    /\ pressure = None
    /\ rt_pressure = None
    /\ parameters = <<>>
    /\ bounds = EmptyDict
    /\ chemistry = ""
    /\ quenching = FALSE
    /\ pt_profile = ""
    /\ cube_index = EmptyDict
    /\ pc = "new"
    /\ log = <<>>
    /\ params_json = <<>>
    /\ history = <<>>
    /\ NoEval
    /\ plotting = FALSE
    /\ NoPlot

\* __init__ from `self.spectrum = self.object.get_spectrum()` to its last line
construct ==
    /\ pc = "new"
    /\ LET r == append_wavel_bins(spectrum, SpectrumKeys) IN
          /\ spectrum' = r.spectrum
          /\ IF r.raised
             THEN /\ pc' = "raised"
                  /\ UNCHANGED pressure
             ELSE /\ pc' = "idle"
                  /\ pressure' = pressure_levels(cloud_species)
    /\ UNCHANGED <<cloud_species, line_species, parameters, bounds, chemistry,
                   quenching, pt_profile, cube_index, log, params_json, history,
                   rt_pressure>>
    /\ UNCHANGED evalvars
    /\ UNCHANGED concvars

NextNew == construct

SpecNew == InitNew /\ [][NextNew]_vars

(***************************************************************************)
(* prior: the transform of the unit cube, in place                         *)
(*                                                                         *)
(* cfg is what the closure captures: self.cloud_species, self.line_species,*)
(* bounds, chemistry, quenching, pt_profile and cube_index.  The state of  *)
(* a transform is [cube, err]; a statement that raises leaves the cube as  *)
(* the statements before it wrote it.                                      *)
(***************************************************************************)
Captured ==
    [cloud_species |-> cloud_species, line_species |-> line_species,
     bounds |-> bounds, chemistry |-> chemistry, quenching |-> quenching,
     pt_profile |-> pt_profile, cube_index |-> cube_index, spectrum |-> spectrum]

\* low + (high-low)*u
Lin(low, high, u) == low + ((high - low) * u) \div Milli

\* x*(1-u)
ScaleDown(x, u) == (x * (Milli - u)) \div Milli

\* cube[cube_index[name]] = value, KeyError when the name has no index
Store(cfg, s, name, value) ==
    IF s.err # "none" THEN s
    ELSE IF name \notin DOMAIN cfg.cube_index THEN [s EXCEPT !.err = "KeyError"]
    ELSE [s EXCEPT !.cube[cfg.cube_index[name]] = value]

\* cube[cube_index[name]] as a number (0 stands in when the lookup fails)
Peek(cfg, s, name) ==
    IF name \in DOMAIN cfg.cube_index THEN s.cube[cfg.cube_index[name]].v ELSE 0

\* `if name in bounds: x = low + (high-low)*cube[i] else: x = <default>`
uniform(cfg, s, name, dlow, dhigh) ==
    Store(cfg, s, name,
          F(IF name \in DOMAIN cfg.bounds
            THEN Lin(cfg.bounds[name][1], cfg.bounds[name][2], Peek(cfg, s, name))
            ELSE Lin(dlow, dhigh, Peek(cfg, s, name))))

\* (3/4 * tint**4 * (0.1 + 2/3))**0.25 = |tint| * 0.575**0.25, in Kelvin
t_connect(tint) == (Abs(tint) * 8708) \div 10000

\* mutant: temp_3 scaled up from t_connect
prior_molliere_knots_up(cfg, s0) ==
    LET tint == Peek(cfg, s0, "tint")
        s3 == Store(cfg, s0, "t3",
                    F((t_connect(tint) * (Milli + Peek(cfg, s0, "t3"))) \div Milli))
        s2 == Store(cfg, s3, "t2", F(ScaleDown(Peek(cfg, s3, "t3"), Peek(cfg, s3, "t2"))))
    IN  Store(cfg, s2, "t1", F(ScaleDown(Peek(cfg, s2, "t2"), Peek(cfg, s2, "t1"))))

\* temp_3, temp_2, temp_1 scaled down from t_connect
prior_molliere_knots(cfg, s0) ==
    LET tint == Peek(cfg, s0, "tint")
        s3 == Store(cfg, s0, "t3", F(ScaleDown(t_connect(tint), Peek(cfg, s0, "t3"))))
        s2 == Store(cfg, s3, "t2", F(ScaleDown(Peek(cfg, s3, "t3"), Peek(cfg, s3, "t2"))))
    IN  Store(cfg, s2, "t1", F(ScaleDown(Peek(cfg, s2, "t2"), Peek(cfg, s2, "t1"))))

\* log10((10**(-3 + 5u) * 1e6)**(-alpha)) = -alpha*(3 + 5u)
log_delta(alpha, u) == -((alpha * (3 * Milli + 5 * u)) \div Milli)

prior_molliere(cfg, s0) ==
    LET s1 == uniform(cfg, s0, "tint", 500, 3000)
        s2 == prior_molliere_knots(cfg, s1)
        s3 == uniform(cfg, s2, "alpha", 1000, 2000)
    IN  Store(cfg, s3, "log_delta",
              F(log_delta(Peek(cfg, s3, "alpha"), Peek(cfg, s3, "log_delta"))))

\* -ln(q) for 0 < q < 1, both in 1/Milli: q is doubled into [0.5, 1) and
\* -ln(m) = 2*atanh((1-m)/(1+m)) is summed to the fifth power
RECURSIVE NegLn(_)
NegLn(q) ==
    IF q < Milli \div 2 THEN 693 + NegLn(2 * q)
    ELSE LET z == ((Milli - q) * Milli) \div (Milli + q)
             z3 == (((z * z) \div Milli) * z) \div Milli
             z5 == (((z3 * z) \div Milli) * z) \div Milli
         IN  2 * z + (2 * z3) \div 3 + (2 * z5) \div 5

\* scipy.stats.invgamma.ppf(q, a=1, scale=scale) = scale/(-ln q); NaN when
\* the scale is not positive, 0 at q = 0
invgamma_ppf(q, scale) ==
    IF scale <= 0 THEN NaN
    ELSE IF q = 0 THEN F(0)
    ELSE F((scale * Milli) \div NegLn(q))

RECURSIVE prior_free_knots(_, _, _)
prior_free_knots(cfg, s, i) ==
    IF i = KnotCount THEN s
    ELSE prior_free_knots(cfg,
             Store(cfg, s, KnotName(i),
                   F((8000 * Peek(cfg, s, KnotName(i))) \div Milli)), i + 1)

prior_free(cfg, s0) ==
    LET s1 == prior_free_knots(cfg, s0, 0)
        beta_r == Peek(cfg, s1, "beta_r")
        gamma_r == invgamma_ppf(Peek(cfg, s1, "gamma_r"), beta_r)
        s2 == Store(cfg, s1, "beta_r", F(beta_r))
    IN  Store(cfg, s2, "gamma_r", gamma_r)

\* mutant: (1 + cube[t{i}]) in place of (1 - cube[t{i}])
RECURSIVE prior_monotonic_loop_up(_, _, _)
prior_monotonic_loop_up(cfg, s, i) ==
    IF i < 0 THEN s
    ELSE prior_monotonic_loop_up(cfg,
             Store(cfg, s, KnotName(i),
                   F((Peek(cfg, s, KnotName(i + 1))
                        * (Milli + Peek(cfg, s, KnotName(i)))) \div Milli)),
             i - 1)

\* for i in range(13, -1, -1): t{i} = t{i+1} * (1 - cube[t{i}])
RECURSIVE prior_monotonic_loop(_, _, _)
prior_monotonic_loop(cfg, s, i) ==
    IF i < 0 THEN s
    ELSE prior_monotonic_loop(cfg,
             Store(cfg, s, KnotName(i),
                   F(ScaleDown(Peek(cfg, s, KnotName(i + 1)),
                               Peek(cfg, s, KnotName(i))))),
             i - 1)

prior_monotonic(cfg, s0) ==
    LET top == KnotName(KnotCount - 1)
        s1 == Store(cfg, s0, top, F((10000 * Peek(cfg, s0, top)) \div Milli))
    IN  prior_monotonic_loop(cfg, s1, KnotCount - 2)

prior_pt(cfg, s) ==
    IF cfg.pt_profile = "molliere" THEN prior_molliere(cfg, s)
    ELSE IF cfg.pt_profile = "free" THEN prior_free(cfg, s)
    ELSE IF cfg.pt_profile = "monotonic" THEN prior_monotonic(cfg, s)
    ELSE s

prior_equilibrium(cfg, s0) ==
    uniform(cfg, uniform(cfg, s0, "metallicity", -1500, 1500), "c_o_ratio", 100, 1600)

SodiumNames == {"Na", "Na_lor_cut", "Na_burrows"}

PotassiumNames == {"K", "K_lor_cut", "K_burrows"}

\* the loop over self.line_species; s carries the local log_x_abund as s.abund
RECURSIVE prior_abundances(_, _, _)
prior_abundances(cfg, s, items) ==
    IF items = <<>> \/ s.err # "none" THEN s
    ELSE LET item == Head(items)
             u == Peek(cfg, s, item)
             s1 == IF item \in DOMAIN cfg.bounds
                   THEN Store(cfg, s, item,
                              F(Lin(cfg.bounds[item][1], cfg.bounds[item][2], u)))
                   ELSE IF item \notin PotassiumNames
                   THEN LET w == Store(cfg, s, item, F((-10000 * u) \div Milli))
                        IN  IF w.err # "none" THEN w
                            ELSE [w EXCEPT !.abund =
                                     (item :> F((-10000 * u) \div Milli)) @@ @]
                   ELSE s
         IN  prior_abundances(cfg, s1, Tail(items))

\* retrieval_util.potassium_abundance: log10 of the potassium mass fraction
\* from the sodium one by the solar K/Na ratio (a constant offset in dex);
\* it fails when log_x_abund holds no sodium species
potassium_abundance(abund) ==
    IF \E n \in SodiumNames : n \in DOMAIN abund
    THEN LET n == CHOOSE n \in SodiumNames : n \in DOMAIN abund
         IN  [err |-> "none", value |-> F(abund[n].v - 979)]
    ELSE [err |-> "KeyError", value |-> NaN]

prior_free_chemistry(cfg, s0) ==
    LET lines == Range(cfg.line_species)
        s1 == prior_abundances(cfg, [cube |-> s0.cube, err |-> s0.err,
                                     abund |-> EmptyDict], cfg.line_species)
        has_na == lines \cap SodiumNames # {}
        k == potassium_abundance(s1.abund)
        s2 == [cube |-> s1.cube,
               err |-> IF s1.err = "none" /\ has_na THEN k.err ELSE s1.err]
        \* the first of K, K_lor_cut, K_burrows that is configured
        slot == IF "K" \in lines THEN "K"
                ELSE IF "K_lor_cut" \in lines THEN "K_lor_cut"
                ELSE IF "K_burrows" \in lines THEN "K_burrows"
                ELSE ""
    IN  IF s2.err # "none" \/ slot = "" THEN s2
        ELSE IF ~has_na THEN [s2 EXCEPT !.err = "UnboundLocalError"]
        ELSE Store(cfg, s2, slot, k.value)

prior_chemistry(cfg, s) ==
    IF s.err # "none" THEN s
    ELSE IF cfg.chemistry = "equilibrium" THEN prior_equilibrium(cfg, s)
    ELSE IF cfg.chemistry = "free" THEN prior_free_chemistry(cfg, s)
    ELSE s

prior_quench(cfg, s) ==
    IF cfg.quenching THEN uniform(cfg, s, "log_p_quench", -6000, 3000) ELSE s

\* mutant: the name tested as set_parameters tests it, with the mode suffix
cloud_fraction_suffixed(cfg, s, species, name) ==
    IF (species \o "_cd") \in Range(cfg.cloud_species)
    THEN Store(cfg, s, name, F(Lin(-1301, 0, Peek(cfg, s, name))))
    ELSE s

\* np.log10(0.05) + (np.log10(1.) - np.log10(0.05))*cube[i]; bounds are not read
cloud_fraction(cfg, s, species, name) ==
    IF species \in Range(cfg.cloud_species)
    THEN Store(cfg, s, name, F(Lin(-1301, 0, Peek(cfg, s, name))))
    ELSE s

prior_clouds(cfg, s0) ==
    IF Len(cfg.cloud_species) > 0
    THEN LET s1 == cloud_fraction(cfg, s0, "Fe(c)", "fe_fraction")
             s2 == cloud_fraction(cfg, s1, "MgSiO3(c)", "mgsio3_fraction")
             s3 == cloud_fraction(cfg, s2, "Na2S(c)", "na2s_fraction")
             s4 == cloud_fraction(cfg, s3, "KCL(c)", "kcl_fraction")
             s5 == uniform(cfg, s4, "fsed", 0, 10000)
             s6 == uniform(cfg, s5, "kzz", 5000, 13000)
         IN  uniform(cfg, s6, "sigma_lnorm", 1050, 3000)
    ELSE s0

\* one of the three loops over self.spectrum at the end of prior
RECURSIVE prior_nuisance_loop(_, _, _, _)
prior_nuisance_loop(cfg, s, keys, kind) ==
    IF keys = <<>> THEN s
    ELSE LET item == Head(keys)
             name == NuisancePrefix(kind) \o item
             s1 == IF has_nuisance(cfg.bounds, item, kind)
                   THEN Store(cfg, s, name,
                              F(Lin(cfg.bounds[item][kind][1], cfg.bounds[item][kind][2],
                                    Peek(cfg, s, name))))
                   ELSE s
         IN  prior_nuisance_loop(cfg, s1, Tail(keys), kind)

prior_nuisance(cfg, s0) ==
    prior_nuisance_loop(cfg,
        prior_nuisance_loop(cfg,
            prior_nuisance_loop(cfg, s0, SpectrumKeys, 1), SpectrumKeys, 2),
        SpectrumKeys, 3)

\* prior(cube, n_dim, n_param): the cube it leaves and the exception, if any
prior(cfg, unit_cube) ==
    LET s0 == [cube |-> [i \in DOMAIN unit_cube |-> F(unit_cube[i])], err |-> "none"]
        s1 == uniform(cfg, s0, "logg", 2000, 5500)
        s2 == uniform(cfg, s1, "radius", 800, 2000)
        s3 == prior_pt(cfg, s2)
        s4 == prior_chemistry(cfg, s3)
        s5 == prior_quench(cfg, s4)
        s6 == prior_clouds(cfg, s5)
    IN  prior_nuisance(cfg, s6)

(***************************************************************************)
(* Float arithmetic as numpy does it                                       *)
(***************************************************************************)
IsNaN(a) == a.k = "nan"

IsInf(a) == a.k \in {"pinf", "ninf"}

IsFinite(a) == a.k = "fin"

\* -1, 0 or 1
Sign(a) ==
    IF a.k = "pinf" THEN 1
    ELSE IF a.k = "ninf" THEN -1
    ELSE IF a.big > 0 \/ (a.big = 0 /\ a.v > 0) THEN 1
    ELSE IF a.big < 0 \/ (a.big = 0 /\ a.v < 0) THEN -1
    ELSE 0

FNeg(a) ==
    IF a.k = "pinf" THEN NInf
    ELSE IF a.k = "ninf" THEN PInf
    ELSE IF a.k = "nan" THEN NaN
    ELSE [k |-> "fin", big |-> -a.big, v |-> -a.v]

\* a + b: inf + (-inf) is NaN
FAdd(a, b) ==
    IF IsNaN(a) \/ IsNaN(b) THEN NaN
    ELSE IF IsInf(a) /\ IsInf(b) THEN (IF a.k = b.k THEN a ELSE NaN)
    ELSE IF IsInf(a) THEN a
    ELSE IF IsInf(b) THEN b
    ELSE [k |-> "fin", big |-> a.big + b.big, v |-> a.v + b.v]

FSub(a, b) == FAdd(a, FNeg(b))

\* a * b for fixed-point operands with a.v*b.v/scale the finite product:
\* inf * 0 is NaN
FMul(a, b, scale) ==
    IF IsNaN(a) \/ IsNaN(b) THEN NaN
    ELSE IF IsInf(a) \/ IsInf(b)
    THEN (IF Sign(a) * Sign(b) = 0 THEN NaN
          ELSE IF Sign(a) * Sign(b) > 0 THEN PInf ELSE NInf)
    ELSE F((a.v * b.v) \div scale)

\* a / n for a finite n > 0
FDivInt(a, n) == IF IsFinite(a) THEN F(a.v \div n) ELSE a

\* a / b with the quotient in 1/Milli: x/0 is +-inf, 0/0 is NaN
FDiv(a, b) ==
    IF IsNaN(a) \/ IsNaN(b) THEN NaN
    ELSE IF IsInf(a) THEN (IF IsInf(b) THEN NaN
                           ELSE IF Sign(a) * (IF Sign(b) < 0 THEN -1 ELSE 1) > 0
                           THEN PInf ELSE NInf)
    ELSE IF IsInf(b) THEN F(0)
    ELSE IF b.v = 0 THEN (IF a.v = 0 THEN NaN ELSE IF a.v > 0 THEN PInf ELSE NInf)
    ELSE F((a.v * Milli) \div b.v)

RECURSIVE FSum(_)
FSum(s) == IF s = <<>> THEN F(0) ELSE FAdd(s[1], FSum(Tail(s)))

\* ln(x) for x > 0, both in 1/Milli
RECURSIVE Ln(_)
Ln(x) == IF x >= Milli THEN 693 + Ln(x \div 2) ELSE -NegLn(x)

\* np.log
FLn(a) ==
    IF IsNaN(a) \/ a.k = "ninf" THEN NaN
    ELSE IF a.k = "pinf" THEN PInf
    ELSE IF a.v < 0 THEN NaN
    ELSE IF a.v = 0 THEN NInf
    ELSE F(Ln(a.v))

\* 10**(k/10) for k = 0..10, in 1/10^6
Pow10Table ==
    <<1000000, 1258925, 1584893, 1995262, 2511886, 3162278, 3981072, 5011872,
      6309573, 7943282, 10000000>>

RECURSIVE IntPow10(_)
IntPow10(n) == IF n = 0 THEN 1 ELSE 10 * IntPow10(n - 1)

\* 10**x for x in 1/Milli, the result in 1/10^6: the table is interpolated
\* within a decade; results of 100 and above are reported as 100
Pow10(x) ==
    LET n == x \div Milli
        f == x % Milli
        k == f \div 100
        m == Pow10Table[k + 1]
               + ((Pow10Table[k + 2] - Pow10Table[k + 1]) * (f % 100)) \div 100
    IN  IF n >= 2 THEN 100 * 1000000
        ELSE IF n >= 0 THEN m * IntPow10(n)
        ELSE IF n < -7 THEN 0
        ELSE m \div IntPow10(-n)

(***************************************************************************)
(* What the collaborators return                                           *)
(***************************************************************************)
\* the wavelength grid of the radiative-transfer evaluator
ModelWavel == <<1000, 2000, 3000, 4000, 5000, 6000>>

Flat(x) == [j \in 1..Len(ModelWavel) |-> F(x)]

\* spectra the radiative-transfer evaluator may return
FluxChoices ==
    { Flat(2000),
      Flat(1531),
      <<F(1000), F(2000), F(3000), F(4000), F(3000), F(2000)>>,
      [Flat(2000) EXCEPT ![3] = NaN],
      [Flat(2000) EXCEPT ![2] = PInf],
      [Flat(2000) EXCEPT ![5] = NInf],
      [Flat(2000) EXCEPT ![2] = PInf, ![3] = NInf] }

RtChoices ==
    { [raises |-> TRUE, flux |-> <<>>] }
        \cup { [raises |-> FALSE, flux |-> f] : f \in FluxChoices }

\* temperature profiles the P-T routines may return (Kelvin)
TempChoices == { <<1000, 1500, 2000>>, <<0, 800, 1200>>, <<-50, 500, 1500>> }

\* (C/H, O/H) pairs retrieval_util.calc_metal_ratio may return
RatioChoices == { <<500, 500>>, <<50, 500>>, <<500, 950>> }

(***************************************************************************)
(* loglike                                                                 *)
(***************************************************************************)
Missing(cfg, names) == \E n \in names : n \notin DOMAIN cfg.cube_index

Val(cfg, c, name) == c[cfg.cube_index[name]]

Returned(value, rt, st) == [ret |-> value, err |-> "none", rt_calls |-> rt, stages |-> st]

Raised(e, rt, st) == [ret |-> None, err |-> e, rt_calls |-> rt, stages |-> st]

\* the names the three nuisance dictionaries look up
nuisance_names(cfg) ==
    { NuisancePrefix(p[1]) \o SpectrumKeys[p[2]] :
        p \in { q \in (1..3) \X (1..Len(SpectrumKeys)) :
                  has_nuisance(cfg.bounds, SpectrumKeys[q[2]], q[1]) } }

\* mutant: the error offset defaults to 0 (no inflation in dex) instead of -100
nuisance_value_zero_offset(cfg, c, item, kind) ==
    IF has_nuisance(cfg.bounds, item, kind)
    THEN Val(cfg, c, NuisancePrefix(kind) \o item)
    ELSE CASE kind = 1 -> F(Milli)
           [] kind = 2 -> F(0)
           [] kind = 3 -> F(0)

\* scaling[item], err_offset[item], wavel_cal[item] with their defaults
nuisance_value(cfg, c, item, kind) ==
    IF has_nuisance(cfg.bounds, item, kind)
    THEN Val(cfg, c, NuisancePrefix(kind) \o item)
    ELSE CASE kind = 1 -> F(Milli)
           [] kind = 2 -> F(-100 * Milli)
           [] kind = 3 -> F(0)

MolliereNames ==
    {"t1", "t2", "t3", "log_delta", "alpha", "tint", "metallicity", "c_o_ratio"}

RECURSIVE roughness(_, _)
\* np.sum((knot_temp[2:] + knot_temp[:-2] - 2.*knot_temp[1:-1])**2.)
roughness(knots, i) ==
    IF i + 2 > Len(knots) THEN 0
    ELSE LET d == knots[i + 2] + knots[i] - 2 * knots[i + 1]
         IN  d * d + roughness(knots, i + 1)

\* -temp_sum/(2*gamma_r) - 0.5*np.log(2*pi*gamma_r): the first term is kept in
\* thousands (big) so that it fits
smoothness_prior(temp_sum, gamma_r) ==
    IF IsNaN(gamma_r) \/ gamma_r.v <= 0 THEN NaN
    ELSE LET g2 == 2 * gamma_r.v
             rest == ((temp_sum % g2) * 1000) \div g2
         IN  [k |-> "fin",
              big |-> -(temp_sum \div g2),
              v |-> -(rest * 1000) - Ln((6283 * gamma_r.v) \div Milli) \div 2]

\* "create a p-t profile": the temperatures come from retrieval_util
loglike_pt(cfg, c, x) ==
    IF cfg.pt_profile = "molliere"
    THEN IF Missing(cfg, MolliereNames)
         THEN [err |-> "KeyError", temp |-> <<>>, log_prior |-> F(0)]
         ELSE [err |-> "none", temp |-> x.temp, log_prior |-> F(0)]
    ELSE IF cfg.pt_profile \in {"free", "monotonic"}
    THEN IF Missing(cfg, Range(KnotNames))
            \/ (cfg.pt_profile = "free" /\ Missing(cfg, {"gamma_r"}))
         THEN [err |-> "KeyError", temp |-> <<>>, log_prior |-> F(0)]
         ELSE [err |-> "none", temp |-> x.temp,
               log_prior |->
                   IF cfg.pt_profile = "free"
                   THEN smoothness_prior(
                            roughness([i \in 1..KnotCount |->
                                          Val(cfg, c, KnotName(i - 1)).v], 1),
                            Val(cfg, c, "gamma_r"))
                   ELSE F(0)]
    ELSE [err |-> "UnboundLocalError", temp |-> <<>>, log_prior |-> F(0)]

SeqMin(t) == CHOOSE m \in Range(t) : \A x \in Range(t) : m <= x

\* mutant: np.max in place of np.min
negative_temperature_max(temp) ==
    \A x \in Range(temp) : x < 0

\* np.min(temp) < 0.
negative_temperature(temp) == SeqMin(temp) < 0

\* f'{item[:-3].lower()}_fraction'
cloud_fraction_key(item) ==
    CASE item = "Fe(c)" -> "fe_fraction"
      [] item = "MgSiO3(c)" -> "mgsio3_fraction"
      [] item = "Na2S(c)" -> "na2s_fraction"
      [] item = "KCL(c)" -> "kcl_fraction"
      [] item = "Al2O3(c)" -> "al2o3_fraction"
      [] item = "Fe(c)_cd" -> "fe(c)_fraction"
      [] item = "MgSiO3(c)_cd" -> "mgsio3(c)_fraction"
      [] item = "Na2S(c)_cd" -> "na2s(c)_fraction"
      [] item = "KCL(c)_cd" -> "kcl(c)_fraction"
      [] item = "Al2O3(c)_cd" -> "al2o3(c)_fraction"

\* mutant: the sum of the abundances is not tested
abundance_sum_unchecked(cfg, c) == FALSE

\* np.sum(10.**np.asarray(list(log_x_abund.values()))) > 1.
abundance_sum_exceeds(cfg, c) ==
    SeqSum([i \in 1..Len(cfg.line_species) |->
               Pow10(Val(cfg, c, cfg.line_species[i]).v)]) > 1000000

\* the two tests of the C/H and O/H ratios against bounds
ratio_outside(cfg, ratio) ==
    \/ /\ "c_h_ratio" \in DOMAIN cfg.bounds
       /\ (ratio[1] < cfg.bounds["c_h_ratio"][1] \/ ratio[1] > cfg.bounds["c_h_ratio"][2])
    \/ /\ "o_h_ratio" \in DOMAIN cfg.bounds
       /\ (ratio[2] < cfg.bounds["o_h_ratio"][1] \/ ratio[2] > cfg.bounds["o_h_ratio"][2])

\* mutant: a quench pressure of 1 bar when quenching is disabled
log_p_quench_one_bar(cfg, c) ==
    IF cfg.quenching THEN Val(cfg, c, "log_p_quench") ELSE F(0)

\* "set the quenching pressure"
log_p_quench(cfg, c) ==
    IF cfg.quenching THEN Val(cfg, c, "log_p_quench") ELSE F(-10 * Milli)

\* log_x_abund[item] = cube[cube_index[item]] for the line species
log_x_abund(cfg, c) ==
    [item \in Range(cfg.line_species) |-> Val(cfg, c, item)]

\* a call of retrieval_util.calc_spectrum_clouds or calc_spectrum_clear, by
\* the routine and its chemistry arguments
RtCall(routine, c_o_ratio, metal, quench, abund) ==
    [routine |-> routine, c_o_ratio |-> c_o_ratio, metallicity |-> metal,
     log_p_quench |-> quench, log_x_abund |-> abund]

calc_spectrum_clouds(cfg, c) ==
    RtCall("clouds", Val(cfg, c, "c_o_ratio"), Val(cfg, c, "metallicity"),
           log_p_quench(cfg, c), None)

calc_spectrum_clear(cfg, c) ==
    IF cfg.chemistry = "equilibrium"
    THEN RtCall("clear", Val(cfg, c, "c_o_ratio"), Val(cfg, c, "metallicity"),
                log_p_quench(cfg, c), None)
    ELSE RtCall("clear", None, None, None, log_x_abund(cfg, c))

\* "calculate the emission spectrum": [err, rejected, rt_calls, ratio, flux]
loglike_spectrum(cfg, c, x) ==
    LET none == [err |-> "none", rejected |-> FALSE, rt_calls |-> <<>>,
                 ratio |-> FALSE, flux |-> <<>>]
    IN  IF Len(cfg.cloud_species) > 0
        THEN IF Missing(cfg, {cloud_fraction_key(cfg.cloud_species[i]) :
                                 i \in 1..Len(cfg.cloud_species)})
                \/ Missing(cfg, {"c_o_ratio", "metallicity", "fsed", "kzz", "logg",
                                 "sigma_lnorm"})
             THEN [none EXCEPT !.err = "KeyError"]
             ELSE IF x.rt.raises
             THEN [none EXCEPT !.err = "UpstreamError", !.rt_calls = <<calc_spectrum_clouds(cfg, c)>>]
             ELSE [none EXCEPT !.rt_calls = <<calc_spectrum_clouds(cfg, c)>>, !.flux = x.rt.flux]
        ELSE IF cfg.chemistry = "equilibrium"
        THEN IF Missing(cfg, {"logg", "c_o_ratio", "metallicity"})
             THEN [none EXCEPT !.err = "KeyError"]
             ELSE IF x.rt.raises
             THEN [none EXCEPT !.err = "UpstreamError", !.rt_calls = <<calc_spectrum_clear(cfg, c)>>]
             ELSE [none EXCEPT !.rt_calls = <<calc_spectrum_clear(cfg, c)>>, !.flux = x.rt.flux]
        ELSE IF cfg.chemistry = "free"
        THEN IF Missing(cfg, Range(cfg.line_species))
             THEN [none EXCEPT !.err = "KeyError"]
             ELSE IF abundance_sum_exceeds(cfg, c)
             THEN [none EXCEPT !.rejected = TRUE]
             \* `'c_h_ratio' or 'o_h_ratio' in bounds` is always true
             ELSE IF ratio_outside(cfg, x.ratio)
             THEN [none EXCEPT !.rejected = TRUE, !.ratio = TRUE]
             ELSE IF x.rt.raises
             THEN [none EXCEPT !.err = "UpstreamError", !.ratio = TRUE,
                               !.rt_calls = <<calc_spectrum_clear(cfg, c)>>]
             ELSE [none EXCEPT !.ratio = TRUE, !.rt_calls = <<calc_spectrum_clear(cfg, c)>>,
                               !.flux = x.rt.flux]
        ELSE [none EXCEPT !.err = "UnboundLocalError"]

\* mutant: the test left out
spectrum_has_nan_unchecked(flux) == FALSE

\* np.sum(np.isnan(flux_lambda)) > 0
spectrum_has_nan(flux) == \E j \in 1..Len(flux) : IsNaN(flux[j])

\* flux_lambda *= (radius*R_JUP/(distance*PARSEC))**2, the flux in units in
\* which the dilution of a planet of one Jupiter radius is 1
scale_flux(flux, radius) ==
    [j \in 1..Len(flux) |-> FMul(FMul(flux[j], radius, Milli), radius, Milli)]

\* retrieval_util.convolve: the Gaussian line spread as the kernel (1, 2, 1)/4
\* with the edges repeated
convolve(flux, spec_res) ==
    [j \in 1..Len(flux) |->
        LET l == flux[IF j = 1 THEN 1 ELSE j - 1]
            r == flux[IF j = Len(flux) THEN j ELSE j + 1]
        IN  FDivInt(FAdd(FAdd(l, r), FAdd(flux[j], flux[j])), 4)]

RECURSIVE SeqOf(_, _, _)
\* the elements f[j] with j in js, in index order from j
SeqOf(f, js, j) ==
    IF j > Len(f) THEN <<>>
    ELSE (IF j \in js THEN <<f[j]>> ELSE <<>>) \o SeqOf(f, js, j + 1)

\* rebin_give_width: the mean of the model points inside each observed bin
\* [w - width/2, w + width/2); NaN for a bin that holds none
rebin_give_width(wlen, flux, data_wavel, bins) ==
    [i \in 1..Len(data_wavel) |->
        LET inside == { j \in 1..Len(wlen) :
                          /\ 2 * wlen[j] >= 2 * data_wavel[i] - bins[i]
                          /\ 2 * wlen[j] < 2 * data_wavel[i] + bins[i] }
        IN  IF inside = {} THEN NaN
            ELSE FDivInt(FSum(SeqOf(flux, inside, 1)), Cardinality(inside))]

\* -np.dot(diff, data_cov_inv.dot(diff))/2.
covariance_term(diff, cov_inv) ==
    LET n == Len(diff)
        cd == [i \in 1..n |-> FSum([j \in 1..n |-> FMul(F(cov_inv[i][j]), diff[j], 1)])]
    IN  FNeg(FDivInt(FSum([i \in 1..n |-> FMul(diff[i], cd[i], Milli)]), 2))

\* mutant: the observed variance left as it is, err_fit not added
gaussian_term_not_inflated(diff, error, err_fit) ==
    LET n == Len(diff)
        var_infl == [i \in 1..n |-> (error[i] * error[i]) \div Milli]
    IN  FNeg(FDivInt(FSum([i \in 1..n |->
                 FAdd(FDiv(FMul(diff[i], diff[i], Milli), F(var_infl[i])),
                      FLn(F((6283 * var_infl[i]) \div Milli)))]), 2))

\* -0.5*np.sum(diff**2/var_infl + np.log(2.*np.pi*var_infl))
gaussian_term(diff, error, err_fit) ==
    LET n == Len(diff)
        var_infl == [i \in 1..n |->
                        (error[i] * error[i]) \div Milli + (err_fit * err_fit) \div Milli]
    IN  FNeg(FDivInt(FSum([i \in 1..n |->
                 FAdd(FDiv(FMul(diff[i], diff[i], Milli), F(var_infl[i])),
                      FLn(F((6283 * var_infl[i]) \div Milli)))]), 2))

\* one pass of the loop over self.spectrum.items()
dataset_term(cfg, c, wlen, flux, key) ==
    LET d == cfg.spectrum[key]
        scaling == nuisance_value(cfg, c, key, 1)
        err_offset == nuisance_value(cfg, c, key, 2)
        wavel_cal == nuisance_value(cfg, c, key, 3)
        data_wavel == [i \in 1..Len(d.wavel) |-> d.wavel[i] + wavel_cal.v]
        err_fit == Pow10(err_offset.v) \div 1000
        flux_smooth == convolve(flux, d.spec_res)
        flux_rebinned == rebin_give_width(wlen, flux_smooth, data_wavel, d.bins)
        diff == [i \in 1..Len(data_wavel) |->
                    FSub(flux_rebinned[i], FMul(scaling, F(d.flux[i]), Milli))]
    IN  IF d.cov_inv # None THEN covariance_term(diff, d.cov_inv)
        ELSE gaussian_term(diff, d.error, err_fit)

\* mutant: `=` in place of `+=`, the term of the last dataset only
log_likelihood_last_only(cfg, c, wlen, flux) ==
    dataset_term(cfg, c, wlen, flux, SpectrumKeys[Len(SpectrumKeys)])

\* log_likelihood after the loop over the datasets
log_likelihood(cfg, c, wlen, flux) ==
    FSum([i \in 1..Len(SpectrumKeys) |-> dataset_term(cfg, c, wlen, flux, SpectrumKeys[i])])

\* loglike(cube, n_dim, n_param); x is what the collaborators return when
\* they are asked: the temperatures, the spectrum (or a failure), the ratios
loglike(cfg, c, x) ==
    IF Missing(cfg, nuisance_names(cfg)) THEN Raised("KeyError", <<>>, <<>>)
    ELSE LET pt == loglike_pt(cfg, c, x) IN
    IF pt.err # "none" THEN Raised(pt.err, <<>>, <<>>)
    ELSE IF negative_temperature(pt.temp) THEN Returned(NInf, <<>>, <<"pt">>)
    ELSE IF cfg.quenching /\ Missing(cfg, {"log_p_quench"})
    THEN Raised("KeyError", <<>>, <<"pt">>)
    ELSE LET sp == loglike_spectrum(cfg, c, x)
             st == <<"pt">> \o (IF sp.ratio THEN <<"ratio">> ELSE <<>>)
                     \o (IF sp.rt_calls # <<>> THEN <<"rt">> ELSE <<>>)
         IN
    IF sp.err # "none" THEN Raised(sp.err, sp.rt_calls, st)
    ELSE IF sp.rejected THEN Returned(NInf, sp.rt_calls, st)
    ELSE IF spectrum_has_nan(sp.flux) THEN Returned(NInf, sp.rt_calls, st)
    ELSE Returned(FAdd(pt.log_prior,
                       log_likelihood(cfg, c, ModelWavel,
                                      scale_flux(sp.flux, Val(cfg, c, "radius")))),
                  sp.rt_calls, st \o <<"scale", "convolve", "rebin", "score">>)

(***************************************************************************)
(* The sampler evaluating one proposal: prior, then loglike, on one cube   *)
(***************************************************************************)
\* the coordinates a unit cube is drawn from, in 1/Milli
UnitLevels ==
    { (k * Milli) \div CubeLevels : k \in 0..(CubeLevels - 1) } \cup { Milli \div 2 }

\* unit cubes of n coordinates: a common value b, one entry q holding a
UnitCubes(n) ==
    { [i \in 0..(n - 1) |-> IF i = q THEN a ELSE b] :
          a \in UnitLevels, b \in UnitLevels, q \in 0..(n - 1) }

\* the runs whose evaluations are explored
EvalConfigs ==
    { [cloud |-> <<>>, line |-> <<>>, bounds |-> EmptyDict,
       chemistry |-> "equilibrium", quenching |-> TRUE, pt_profile |-> "molliere"],
      [cloud |-> <<>>, line |-> <<>>, bounds |-> FullBounds,
       chemistry |-> "equilibrium", quenching |-> FALSE, pt_profile |-> "monotonic"],
      [cloud |-> <<>>, line |-> <<>>, bounds |-> EmptyDict,
       chemistry |-> "equilibrium", quenching |-> FALSE, pt_profile |-> "free"],
      [cloud |-> <<>>, line |-> <<"H2O", "CO">>, bounds |-> EmptyDict,
       chemistry |-> "free", quenching |-> FALSE, pt_profile |-> "free"],
      [cloud |-> <<>>, line |-> <<"H2O">>, bounds |-> FullBounds,
       chemistry |-> "free", quenching |-> FALSE, pt_profile |-> "monotonic"],
      [cloud |-> <<>>, line |-> <<"H2O", "CO">>, bounds |-> EmptyDict,
       chemistry |-> "free", quenching |-> FALSE, pt_profile |-> "molliere"],
      [cloud |-> <<>>, line |-> <<"H2O", "Na", "K">>, bounds |-> EmptyDict,
       chemistry |-> "free", quenching |-> FALSE, pt_profile |-> "monotonic"],
      [cloud |-> <<>>, line |-> <<"H2O", "K">>, bounds |-> EmptyDict,
       chemistry |-> "free", quenching |-> FALSE, pt_profile |-> "monotonic"],
      [cloud |-> <<"Fe(c)_cd">>, line |-> <<"H2O">>, bounds |-> FullBounds,
       chemistry |-> "equilibrium", quenching |-> FALSE, pt_profile |-> "molliere"],
      [cloud |-> <<"MgSiO3(c)_cd", "Fe(c)_cd">>, line |-> <<"H2O">>,
       bounds |-> EmptyDict,
       chemistry |-> "equilibrium", quenching |-> TRUE, pt_profile |-> "molliere"],
      [cloud |-> <<"Al2O3(c)_cd">>, line |-> <<>>, bounds |-> EmptyDict,
       chemistry |-> "equilibrium", quenching |-> FALSE, pt_profile |-> "free"],
      [cloud |-> <<>>, line |-> <<>>, bounds |-> ErrorBounds,
       chemistry |-> "equilibrium", quenching |-> FALSE, pt_profile |-> "free"] }

\* mutant: the diagnostic plot drawn whatever the flag
plot_enabled_always(flag) == TRUE

\* `if plotting:`
plot_enabled(flag) == flag

\* a fresh object on which run_multinest has reached pymultinest.run
InitEval ==
    /\ \E c \in EvalConfigs :
          /\ cloud_species = converted_cloud_species(c.cloud)
          /\ line_species = c.line
          /\ parameters = set_parameters(<<>>, c.cloud, c.line, c.bounds, c.chemistry,
                                         c.quenching, c.pt_profile)
          /\ bounds = strip_bounds(c.bounds, c.cloud, c.chemistry)
          /\ chemistry = c.chemistry
          /\ quenching = c.quenching
          /\ pt_profile = c.pt_profile
          /\ history = << [op |-> "run_multinest", bounds |-> c.bounds,
                           chemistry |-> c.chemistry, quenching |-> c.quenching,
                           pt_profile |-> c.pt_profile, raised |-> FALSE,
                           effects |-> run_multinest_effects(FALSE),
                           before |-> <<>>, files_before |-> <<>>] >>
          /\ ~run_multinest_raises(c.chemistry, c.quenching)
          /\ ~set_parameters_raises(c.cloud, c.chemistry)
    /\ cube_index = build_cube_index(parameters)
    /\ params_json = parameters
    /\ log = run_multinest_effects(FALSE)
    /\ pc = "sampling"
    /\ NoEval
    /\ plotting \in BOOLEAN
    /\ NoPlot
    /\ spectrum = Spectrum
    /\ pressure = pressure_levels(cloud_species)
    /\ rt_pressure = setup_pressure(pressure, cloud_species)

\* what the pyplot calls of evaluation e draw: the data and the rebinned model
\* of every dataset, then the smoothed model
Drawn(e) ==
    { [by |-> e, what |-> SpectrumKeys[k]] : k \in 1..Len(SpectrumKeys) }
        \cup { [by |-> e, what |-> "model"] }

\* the sampler hands a unit cube to prior
evaluate_prior(unit_cube) ==
    /\ pc = "sampling"
    /\ ev = "none"
    /\ \E r \in {prior(Captured, unit_cube)} :
           /\ cube' = r.cube
           /\ err' = r.err
           /\ ev' = IF r.err = "none" THEN "prior" ELSE "prior_raised"
    /\ ext' = [ext EXCEPT !.unit = unit_cube]
    /\ UNCHANGED <<cloud_species, line_species, parameters, bounds, chemistry,
                   quenching, pt_profile, cube_index, pc, log, params_json, history,
                   result, rt_calls, stages, rt_pressure>>
    /\ UNCHANGED objvars
    /\ UNCHANGED concvars

\* the sampler hands the transformed cube to loglike
evaluate_loglike(temp, rt, ratio) ==
    /\ pc = "sampling"
    /\ ev = "prior"
    /\ \E r \in {loglike(Captured, cube, [temp |-> temp, rt |-> rt, ratio |-> ratio])} :
           /\ result' = r.ret
           /\ err' = r.err
           /\ ev' = IF r.err = "none" THEN "returned" ELSE "raised"
           /\ rt_calls' = r.rt_calls
           /\ stages' = r.stages
           \* `if plotting:` the figure is drawn, saved and cleared again
           /\ pdf' = IF "score" \in Range(r.stages) /\ plot_enabled(plotting)
                     THEN << figure \cup Drawn("a") >> ELSE pdf
           /\ ext' = [unit |-> ext.unit,
                      temp |-> IF "pt" \in Range(r.stages) THEN temp ELSE <<>>,
                      rt |-> IF r.rt_calls # <<>> THEN rt ELSE NoRt,
                      ratio |-> IF "ratio" \in Range(r.stages) THEN ratio ELSE <<>>]
    /\ UNCHANGED <<cloud_species, line_species, parameters, bounds, chemistry,
                   quenching, pt_profile, cube_index, pc, log, params_json, history,
                   cube, rt_pressure>>
    /\ UNCHANGED objvars
    /\ UNCHANGED <<plotting, figure, procs>>

NextEval ==
    \/ /\ ev = "none"
       /\ \E u \in UnitCubes(Len(parameters)) : evaluate_prior(u)
    \/ /\ ev = "prior"
       /\ \E temp \in TempChoices, rt \in RtChoices, ratio \in RatioChoices :
             evaluate_loglike(temp, rt, ratio)

SpecEval == InitEval /\ [][NextEval]_vars

(***************************************************************************)
(* The sampler evaluating two proposals side by side, plotting on or off   *)
(***************************************************************************)
\* the runs whose concurrent evaluations are explored (clear atmospheres)
ConcConfigs ==
    { [cloud |-> <<>>, line |-> <<>>, bounds |-> EmptyDict,
       chemistry |-> "equilibrium", quenching |-> TRUE, pt_profile |-> "molliere"],
      [cloud |-> <<>>, line |-> <<>>, bounds |-> FullBounds,
       chemistry |-> "equilibrium", quenching |-> FALSE, pt_profile |-> "monotonic"] }

\* what the radiative-transfer routine and calc_metal_ratio answer here
ConcRt == [raises |-> FALSE, flux |-> Flat(2000)]

ConcRatio == <<500, 500>>

\* a fresh object on which run_multinest(..., plotting) has reached pymultinest.run
InitConc ==
    /\ \E c \in ConcConfigs :
          /\ cloud_species = converted_cloud_species(c.cloud)
          /\ line_species = c.line
          /\ parameters = set_parameters(<<>>, c.cloud, c.line, c.bounds, c.chemistry,
                                         c.quenching, c.pt_profile)
          /\ bounds = strip_bounds(c.bounds, c.cloud, c.chemistry)
          /\ chemistry = c.chemistry
          /\ quenching = c.quenching
          /\ pt_profile = c.pt_profile
          /\ history = << [op |-> "run_multinest", bounds |-> c.bounds,
                           chemistry |-> c.chemistry, quenching |-> c.quenching,
                           pt_profile |-> c.pt_profile, raised |-> FALSE,
                           effects |-> run_multinest_effects(FALSE),
                           before |-> <<>>, files_before |-> <<>>] >>
    /\ cube_index = build_cube_index(parameters)
    /\ params_json = parameters
    /\ log = run_multinest_effects(FALSE)
    /\ pc = "sampling"
    /\ NoEval
    /\ plotting \in BOOLEAN
    /\ NoPlot
    /\ spectrum = Spectrum
    /\ pressure = pressure_levels(cloud_species)
    /\ rt_pressure = setup_pressure(pressure, cloud_species)

\* the steps of every evaluation leave the sequential bookkeeping alone
ConcFrame ==
    /\ UNCHANGED <<cloud_species, line_species, parameters, bounds, chemistry,
                   quenching, pt_profile, cube_index, pc, log, params_json, history,
                   plotting, rt_pressure>>
    /\ UNCHANGED objvars
    /\ UNCHANGED evalvars

\* prior(cube, ...) on the cube of evaluation e
conc_prior(e, unit_cube) ==
    /\ procs[e].pc = "idle"
    /\ \E r \in {prior(Captured, unit_cube)} :
          procs' = [procs EXCEPT ![e] =
                       [@ EXCEPT !.pc = IF r.err = "none" THEN "transformed" ELSE "done",
                                 !.unit = unit_cube, !.cube = r.cube, !.err = r.err]]
    /\ UNCHANGED <<figure, pdf>>
    /\ ConcFrame

\* loglike up to the value it will return; the plot calls follow
conc_loglike(e, temp) ==
    /\ procs[e].pc = "transformed"
    /\ \E r \in {loglike(Captured, procs[e].cube,
                         [temp |-> temp, rt |-> ConcRt, ratio |-> ConcRatio])} :
          procs' = [procs EXCEPT ![e] =
                       [@ EXCEPT !.pc = IF "score" \in Range(r.stages)
                                           /\ plot_enabled(plotting)
                                        THEN "errorbar" ELSE "done",
                                 !.temp = temp, !.ret = r.ret, !.err = r.err]]
    /\ UNCHANGED <<figure, pdf>>
    /\ ConcFrame

\* plt.errorbar(...) and plt.plot(...) for every dataset
conc_plot_datasets(e) ==
    /\ procs[e].pc = "errorbar"
    /\ figure' = figure \cup { [by |-> e, what |-> SpectrumKeys[k]] :
                                  k \in 1..Len(SpectrumKeys) }
    /\ procs' = [procs EXCEPT ![e].pc = "plot"]
    /\ UNCHANGED pdf
    /\ ConcFrame

\* plt.plot(wlen_micron, flux_smooth, ...) and the axis labels
conc_plot_model(e) ==
    /\ procs[e].pc = "plot"
    /\ figure' = figure \cup { [by |-> e, what |-> "model"] }
    /\ procs' = [procs EXCEPT ![e].pc = "savefig"]
    /\ UNCHANGED pdf
    /\ ConcFrame

\* plt.savefig('spectrum.pdf', ...)
conc_savefig(e) ==
    /\ procs[e].pc = "savefig"
    /\ pdf' = << figure >>
    /\ procs' = [procs EXCEPT ![e].pc = "clf"]
    /\ UNCHANGED figure
    /\ ConcFrame

\* plt.clf(), then `return log_prior + log_likelihood`
conc_clf(e) ==
    /\ procs[e].pc = "clf"
    /\ figure' = {}
    /\ procs' = [procs EXCEPT ![e].pc = "done"]
    /\ UNCHANGED pdf
    /\ ConcFrame

\* the unit cubes the concurrent evaluations are handed
ConcCubes(n) == { [i \in 0..(n - 1) |-> b] : b \in UnitLevels }

NextConc ==
    \/ \E e \in Evaluations, u \in ConcCubes(Len(parameters)) : conc_prior(e, u)
    \/ \E e \in Evaluations, temp \in TempChoices : conc_loglike(e, temp)
    \/ \E e \in Evaluations : conc_plot_datasets(e)
    \/ \E e \in Evaluations : conc_plot_model(e)
    \/ \E e \in Evaluations : conc_savefig(e)
    \/ \E e \in Evaluations : conc_clf(e)

SpecConc == InitConc /\ [][NextConc]_vars

(***************************************************************************)
(* Claims about the schema builder and the driver (specification Spec).    *)
(***************************************************************************)
NoDuplicates(s) == \A i, j \in 1..Len(s) : s[i] = s[j] => i = j

SameInputs(h, g) ==
    /\ h.bounds = g.bounds
    /\ h.chemistry = g.chemistry
    /\ h.quenching = g.quenching
    /\ h.pt_profile = g.pt_profile

\* self.parameters right after the i-th call
ParametersAfter(i) ==
    IF i < Len(history) THEN history[i + 1].before ELSE parameters

InvalidQuenching(h) == h.quenching /\ h.chemistry # "equilibrium"

InvalidClouds(h) == Len(cloud_species) > 0 /\ h.chemistry # "equilibrium"

\* C1: after any number of calls with identical inputs on one object,
\* self.parameters has no duplicate name and equals the list the first call
\* produced.
C1_SchemaStableAcrossCalls ==
    ( /\ Len(history) >= 1
      /\ \A i \in 1..Len(history) :
            ~history[i].raised /\ SameInputs(history[i], history[1]) )
    => /\ NoDuplicates(parameters)
       /\ parameters = ParametersAfter(1)

\* C2: run_multinest with quenching and chemistry 'free', or with a cloud
\* species and chemistry 'free', raises before params.json or radtrans.json is
\* written and before pymultinest.run is invoked; no call that raised started
\* the sampler.
C2_InvalidRunRaisesBeforeSampler ==
    \A i \in 1..Len(history) :
        LET h == history[i] IN
        h.op = "run_multinest" =>
            /\ (InvalidQuenching(h) \/ InvalidClouds(h)) => h.raised
            /\ h.raised =>
                  /\ Range(h.effects) \cap
                        {"params.json", "radtrans.json", "pymultinest.run"} = {}
                  /\ i = Len(history) =>
                        (pc = "raised" /\ params_json = h.files_before)

C2_Witness ==
    /\ Len(history) >= 1
    /\ LET h == history[Len(history)] IN
         /\ h.op = "run_multinest"
         /\ InvalidQuenching(h)
         /\ ~InvalidClouds(h)
         /\ h.raised
         /\ pc = "raised"

\* C3 as stated: set_parameters itself raises whenever quenching or a cloud
\* species is combined with non-equilibrium chemistry, and then adds nothing.
C3_SetParametersRejectsQuenching ==
    \A i \in 1..Len(history) :
        LET h == history[i] IN
        (h.op = "set_parameters" /\ (InvalidQuenching(h) \/ InvalidClouds(h)))
            => (h.raised /\ ParametersAfter(i) = h.before)

\* C3 amended: set_parameters raises exactly for a cloud species with
\* non-equilibrium chemistry; quenching with non-equilibrium chemistry is
\* rejected by run_multinest before it calls set_parameters; a call that
\* raised added no parameter.
C3_ConfigurationErrors ==
    \A i \in 1..Len(history) :
        LET h == history[i] IN
        /\ h.op = "set_parameters" => (h.raised <=> InvalidClouds(h))
        /\ h.op = "run_multinest" =>
              (h.raised <=> (InvalidQuenching(h) \/ InvalidClouds(h)))
        /\ h.raised => ParametersAfter(i) = h.before

C3_Witness ==
    /\ Len(history) >= 1
    /\ LET h == history[Len(history)] IN
         /\ h.op = "set_parameters"
         /\ InvalidClouds(h)
         /\ h.raised
         /\ h.before # <<>>
         /\ parameters = h.before

\* C4: on a fresh object, equilibrium chemistry with quenching, the
\* 'molliere' profile, no cloud species and no nuisance bounds give exactly
\* the 11 names below, in this order.
C4_MolliereSchema ==
    ( /\ Len(history) = 1
      /\ ~history[1].raised
      /\ history[1].chemistry = "equilibrium"
      /\ history[1].quenching
      /\ history[1].pt_profile = "molliere"
      /\ cloud_species = <<>>
      /\ \A d \in Range(SpectrumKeys) : d \notin DOMAIN history[1].bounds )
    => parameters = <<"logg", "radius", "tint", "t1", "t2", "t3", "alpha",
                      "log_delta", "metallicity", "c_o_ratio", "log_p_quench">>

C4_Witness ==
    /\ Len(history) = 1
    /\ history[1].op = "set_parameters"
    /\ history[1].chemistry = "equilibrium"
    /\ history[1].quenching
    /\ history[1].pt_profile = "molliere"
    /\ history[1].bounds = EmptyDict
    /\ cloud_species = <<>>
    /\ Len(parameters) = 11

(***************************************************************************)
(* Claims about one evaluation (specification SpecEval).                   *)
(***************************************************************************)
Transformed == ev # "none"

Evaluated == ev \in {"returned", "raised"}

\* the transformed value in the slot of a schema name
Slot(name) == cube[cube_index[name]].v

Knot(i) == Slot(KnotName(i))

\* C5: for the 'monotonic' profile the transformed knots satisfy
\* t0 <= t1 <= ... <= t14 and every knot is >= 0.
C5_MonotonicKnots ==
    (Transformed /\ pt_profile = "monotonic")
    => /\ \A i \in 0..(KnotCount - 2) : Knot(i) <= Knot(i + 1)
       /\ \A i \in 0..(KnotCount - 1) : Knot(i) >= 0

C5_Witness ==
    /\ ev = "prior"
    /\ pt_profile = "monotonic"
    /\ Knot(KnotCount - 3) > 0
    /\ Knot(KnotCount - 3) < Knot(KnotCount - 2)
    /\ Knot(KnotCount - 2) < Knot(KnotCount - 1)

\* C6: for the 'molliere' profile the transformed values satisfy
\* t1 <= t2 <= t3 <= T_connect, T_connect derived from the transformed tint.
C6_MolliereKnots ==
    (Transformed /\ pt_profile = "molliere")
    => /\ Slot("t1") <= Slot("t2")
       /\ Slot("t2") <= Slot("t3")
       /\ Slot("t3") <= t_connect(Slot("tint"))

C6_Witness ==
    /\ ev = "prior"
    /\ pt_profile = "molliere"
    /\ 0 < Slot("t1")
    /\ Slot("t1") < Slot("t2")
    /\ Slot("t2") < Slot("t3")
    /\ Slot("t3") < t_connect(Slot("tint"))

\* the default ranges section 4.2 of the specification documents, in 1/Milli
\* (temperatures in Kelvin)
DocumentedRange(name) ==
    CASE name = "logg" -> <<2000, 5500>>
      [] name = "radius" -> <<800, 2000>>
      [] name = "tint" -> <<500, 3000>>
      [] name = "alpha" -> <<1000, 2000>>
      [] name = "metallicity" -> <<-1500, 1500>>
      [] name = "c_o_ratio" -> <<100, 1600>>
      [] name = "log_p_quench" -> <<-6000, 3000>>
      [] name \in {"fe_fraction", "mgsio3_fraction", "na2s_fraction", "kcl_fraction"}
           -> <<-1301, 0>>
      [] name = "fsed" -> <<0, 10000>>
      [] name = "kzz" -> <<5000, 13000>>
      [] name = "sigma_lnorm" -> <<1050, 3000>>
      [] name \in Range(KnotNames) /\ pt_profile = "free" -> <<0, 8000>>
      [] name = KnotName(KnotCount - 1) /\ pt_profile = "monotonic" -> <<0, 10000>>
      [] name \in Range(line_species) \ PotassiumNames /\ chemistry = "free"
           -> <<-10000, 0>>
      [] OTHER -> None

AtMidpoint(name) ==
    DocumentedRange(name) # None
    => Slot(name) = Lin(DocumentedRange(name)[1], DocumentedRange(name)[2], Milli \div 2)

HalfCube == \A i \in DOMAIN ext.unit : ext.unit[i] = Milli \div 2

\* C7: with no explicit bounds the transform of the cube [0.5]*n leaves every
\* parameter that has a documented default range at the midpoint of it.
C7_MidpointOfDefaults ==
    (ev = "prior" /\ bounds = EmptyDict /\ HalfCube)
    => \A name \in DOMAIN cube_index : AtMidpoint(name)

C7_Witness ==
    /\ ev = "prior"
    /\ bounds = EmptyDict
    /\ HalfCube
    /\ {"logg", "radius", "tint", "alpha", "metallicity", "c_o_ratio", "log_p_quench",
        "fe_fraction", "mgsio3_fraction", "fsed", "kzz", "sigma_lnorm"}
           \subseteq DOMAIN cube_index
    /\ Slot("logg") = 3750
    /\ Slot("radius") = 1400
    /\ Slot("tint") = 1750
    /\ Slot("alpha") = 1500
    /\ Slot("metallicity") = 0
    /\ Slot("c_o_ratio") = 850
    /\ Slot("log_p_quench") = -1500
    /\ Slot("fe_fraction") < 0
    /\ Slot("fsed") = 5000
    /\ Slot("kzz") = 9000
    /\ Slot("sigma_lnorm") = 2025

\* C8: an evaluation whose temperature profile has a negative entry returns
\* -inf, for every P-T parameterization.
C8_NegativeTemperatureRejected ==
    ( /\ Evaluated
      /\ "pt" \in Range(stages)
      /\ \E i \in 1..Len(ext.temp) : ext.temp[i] < 0 )
    => (ev = "returned" /\ result = NInf)

C8_Witness ==
    /\ ev = "returned"
    /\ pt_profile = "free"
    /\ IsFinite(cube[cube_index["gamma_r"]])
    /\ Knot(1) # Knot(2)
    /\ \E i \in 1..Len(ext.temp) : ext.temp[i] < 0
    /\ \E i \in 1..Len(ext.temp) : ext.temp[i] > 0
    /\ result = NInf

SpectrumReturned == Evaluated /\ rt_calls # <<>> /\ ~ext.rt.raises

C10_AbundanceSumRejected ==
    (Evaluated /\ chemistry = "free" /\ cloud_species = <<>>)
    => IF abundance_sum_exceeds(Captured, cube)
       THEN ev = "returned" /\ result = NInf /\ rt_calls = <<>>
       ELSE (ev = "returned" /\ result = NInf /\ rt_calls = <<>>)
                => ("ratio" \in Range(stages)
                    \/ \E i \in 1..Len(ext.temp) : ext.temp[i] < 0)

\* a ratio bound that is configured and that the computed ratio violates
RatioViolated(key, value) ==
    /\ key \in DOMAIN bounds
    /\ (value < bounds[key][1] \/ value > bounds[key][2])

RatiosComputed == Evaluated /\ "ratio" \in Range(stages)

\* C11: in a free-chemistry evaluation each ratio bound is tested exactly when
\* its key is in bounds, the evaluation is rejected exactly when a configured
\* ratio is outside its pair, and the ratios are computed only when at least
\* one of the two bounds is configured.
C11_RatioBoundsIndependent ==
    (RatiosComputed /\ chemistry = "free")
    => /\ (ev = "returned" /\ result = NInf /\ rt_calls = <<>>)
             <=> (\/ RatioViolated("c_h_ratio", ext.ratio[1])
                  \/ RatioViolated("o_h_ratio", ext.ratio[2]))
       /\ RatioBoundKeys \cap DOMAIN bounds # {}

\* C12: an evaluation whose radiative-transfer routine raises returns -inf;
\* the exception does not leave loglike.
C12_UpstreamFailureRejected ==
    (Evaluated /\ rt_calls # <<>> /\ ext.rt.raises)
    => (ev = "returned" /\ result = NInf /\ err = "none")

(***************************************************************************)
(* Claims about the run as the sampler sees it.                            *)
(***************************************************************************)
IndexSet == { cube_index[name] : name \in DOMAIN cube_index }

\* C13: when the sampler is started cube_index is a bijection between the
\* schema names and 0..n-1, n = len(self.parameters) being the count handed
\* to the sampler; no evaluation changes self.parameters or cube_index.
C13_CubeIndexBijection ==
    (pc = "sampling")
    => /\ DOMAIN cube_index = Range(parameters)
       /\ IndexSet = 0..(Len(parameters) - 1)
       /\ \A a, b \in DOMAIN cube_index : cube_index[a] = cube_index[b] => a = b

\* C14: every run_multinest that reaches the sampler has written params.json
\* and radtrans.json before pymultinest.run is invoked, and params.json holds,
\* in order, the list cube_index was built from.
C14_FilesBeforeSampler ==
    /\ \A i \in 1..Len(history) :
          LET h == history[i] IN
          (h.op = "run_multinest" /\ ~h.raised) =>
              \E a, b, c \in 1..Len(h.effects) :
                  /\ h.effects[a] = "params.json"
                  /\ h.effects[b] = "radtrans.json"
                  /\ h.effects[c] = "pymultinest.run"
                  /\ a < c
                  /\ b < c
    /\ (pc = "sampling") =>
          /\ params_json = parameters
          /\ \A name \in DOMAIN cube_index : params_json[cube_index[name] + 1] = name
          /\ DOMAIN cube_index = Range(params_json)

C14_Witness ==
    /\ pc = "sampling"
    /\ Len(history) = 1
    /\ history[1].op = "run_multinest"
    /\ "pymultinest.run" \in Range(log)
    /\ Len(params_json) > KnotCount
    /\ "scaling_GRAVITY" \in Range(params_json)

(***************************************************************************)
(* Claims about concurrent evaluations (specification SpecConc).           *)
(***************************************************************************)
\* what evaluation e returns or raises when it runs alone
Sequential(e) ==
    loglike(Captured, prior(Captured, procs[e].unit).cube,
            [temp |-> procs[e].temp, rt |-> ConcRt, ratio |-> ConcRatio])

SameAsSequential ==
    \A e \in Evaluations :
        procs[e].pc = "done" /\ procs[e].temp # <<>>
        => (procs[e].ret = Sequential(e).ret /\ procs[e].err = Sequential(e).err)

ConfigurationKept ==
    /\ bounds' = bounds
    /\ parameters' = parameters
    /\ cube_index' = cube_index
    /\ cloud_species' = cloud_species
    /\ line_species' = line_species

Plotting(e) == procs[e].pc \in {"plot", "savefig", "clf"}

\* C16: with plotting enabled the plot side effects of two concurrent
\* evaluations never overlap in time.
C16_PlotsNeverOverlap ==
    \A e1, e2 \in Evaluations : (Plotting(e1) /\ Plotting(e2)) => e1 = e2

(***************************************************************************)
(* Further claims about one evaluation (specification SpecEval).           *)
(***************************************************************************)
ConfiguredPotassium == Range(line_species) \cap PotassiumNames

ConfiguredSodium == Range(line_species) \cap SodiumNames

\* C17: under free chemistry with a potassium species configured the prior
\* transform completes and the potassium slot holds a value derived from the
\* sodium abundance, also when no sodium species is configured.
C17_PotassiumDerived ==
    (Transformed /\ chemistry = "free" /\ ConfiguredPotassium # {})
    => /\ ev # "prior_raised"
       /\ \A k \in ConfiguredPotassium, n \in ConfiguredSodium :
             Slot(k) = potassium_abundance(n :> F(Slot(n))).value.v

\* the schema parameters for which bounds holds an explicit (low, high) pair
ExplicitlyBounded == DOMAIN bounds \cap DOMAIN cube_index

\* C18: every schema parameter with an explicit (low, high) pair in bounds is
\* transformed to low + (high-low)*u and so lies in [low, high); this holds
\* in particular for the cloud mass fractions.
C18_ExplicitBoundsUsed ==
    (ev = "prior")
    => \A name \in ExplicitlyBounded :
          /\ Slot(name) = Lin(bounds[name][1], bounds[name][2],
                              ext.unit[cube_index[name]])
          /\ bounds[name][1] <= Slot(name)
          /\ Slot(name) < bounds[name][2]

\* the mass-fraction parameters set_parameters adds, one per recognized species
FractionNames == {"fe_fraction", "mgsio3_fraction", "na2s_fraction", "kcl_fraction"}

\* C19: with cloud species configured the prior transform completes and every
\* mass-fraction slot of the schema holds a value in [log10(0.05), log10(1)].
C19_CloudFractionsInRange ==
    (Transformed /\ cloud_species # <<>>)
    => /\ ev # "prior_raised"
       /\ \A name \in FractionNames \cap DOMAIN cube_index :
             -1301 <= Slot(name) /\ Slot(name) <= 0

C19_Witness ==
    /\ ev = "prior"
    /\ {"fe_fraction", "mgsio3_fraction"} \subseteq DOMAIN cube_index
    /\ ext.unit[cube_index["fe_fraction"]] = 0
    /\ Slot("fe_fraction") = -1301
    /\ ext.unit[cube_index["mgsio3_fraction"]] > 0
    /\ Slot("mgsio3_fraction") > -1301
    /\ Slot("mgsio3_fraction") < 0

(***************************************************************************)
(* Further claims about the driver (specification Spec).                   *)
(***************************************************************************)
\* the call of run_multinest that started the sampler
StartingCall == history[Len(history)]

\* the keys that do not apply to the run in progress
Inapplicable ==
    (IF cloud_species = <<>> THEN CloudBoundKeys ELSE {})
        \cup (IF chemistry # "free" THEN RatioBoundKeys ELSE {})

\* C20: when the sampler is started bounds holds no cloud key if no cloud
\* species is configured and no ratio key if the chemistry is not 'free';
\* every other key the caller gave is still there with its value.
C20_InapplicableBoundsStripped ==
    (pc = "sampling")
    => /\ DOMAIN bounds = DOMAIN StartingCall.bounds \ Inapplicable
       /\ \A k \in DOMAIN bounds : bounds[k] = StartingCall.bounds[k]

C20_Witness ==
    /\ pc = "sampling"
    /\ cloud_species = <<>>
    /\ chemistry = "equilibrium"
    /\ {"fsed", "fe_fraction", "c_h_ratio"} \subseteq DOMAIN StartingCall.bounds
    /\ DOMAIN bounds = {"logg", "GRAVITY", "SPHERE"}

(***************************************************************************)
(* Claims about the per-dataset nuisance parameters (specification         *)
(* SpecEval).                                                              *)
(***************************************************************************)
\* the bounds dictionary as the caller handed it to run_multinest
CallerBounds == history[Len(history)].bounds

\* the dataset has an entry in bounds whose element for this kind is not None
Fitted(item, kind) ==
    item \in DOMAIN CallerBounds /\ CallerBounds[item][kind] # None

\* scaling = 1, error offset = -100, wavelength shift = 0
FixedDefault(kind) ==
    CASE kind = 1 -> F(Milli) [] kind = 2 -> F(-100 * Milli) [] kind = 3 -> F(0)

\* C21: for each dataset and each nuisance kind the schema holds
\* '<kind>_<dataset>' exactly when bounds has a non-None element for it; the
\* prior transforms exactly those slots linearly between the pair, and the
\* likelihood reads exactly those slots and the fixed defaults 1, -100 and 0
\* for all others.
C21_NuisanceSlotsConsistent ==
    \A item \in Range(SpectrumKeys), kind \in 1..3 :
        LET name == NuisancePrefix(kind) \o item IN
        /\ name \in Range(parameters) <=> Fitted(item, kind)
        /\ name \in DOMAIN cube_index <=> Fitted(item, kind)
        /\ (Transformed /\ Fitted(item, kind))
              => /\ ev # "prior_raised"
                 /\ Slot(name) = Lin(CallerBounds[item][kind][1],
                                     CallerBounds[item][kind][2],
                                     ext.unit[cube_index[name]])
        /\ Transformed
              => nuisance_value(Captured, cube, item, kind)
                   = IF Fitted(item, kind) THEN cube[cube_index[name]]
                     ELSE FixedDefault(kind)

C21_Witness ==
    /\ ev = "returned"
    /\ IsFinite(result)
    /\ Fitted("GRAVITY", 1) /\ ~Fitted("GRAVITY", 2) /\ ~Fitted("GRAVITY", 3)
    /\ ~Fitted("SPHERE", 1) /\ Fitted("SPHERE", 2) /\ Fitted("SPHERE", 3)
    /\ ext.unit[cube_index["scaling_GRAVITY"]] = Milli \div 2
    /\ Slot("scaling_GRAVITY") = 1000
    /\ Slot("error_SPHERE") = 0
    /\ Slot("wavelength_SPHERE") = 0
    /\ nuisance_value(Captured, cube, "SPHERE", 1) = F(Milli)
    /\ nuisance_value(Captured, cube, "GRAVITY", 2) = F(-100 * Milli)

(***************************************************************************)
(* Claims about the score (specification SpecEval).                        *)
(***************************************************************************)
\* the evaluation ran to the end of loglike and returned a score
Scored == ev = "returned" /\ "score" \in Range(stages)

\* the spectrum of the evaluation after the dilution by the radius
ScaledFlux == scale_flux(ext.rt.flux, cube[cube_index["radius"]])

\* the model resampled onto the (shifted) grid of a dataset
Rebinned(key) ==
    rebin_give_width(ModelWavel, convolve(ScaledFlux, Spectrum[key].spec_res),
                     [i \in 1..Len(Spectrum[key].wavel) |->
                         Spectrum[key].wavel[i]
                           + nuisance_value(Captured, cube, key, 3).v],
                     Spectrum[key].bins)

ModelEqualsObserved(key) ==
    \A i \in 1..Len(Spectrum[key].flux) : Rebinned(key)[i] = F(Spectrum[key].flux[i])

DiagonalPath(key) == Spectrum[key].cov_inv = None

\* what the dataset adds to log_likelihood in this evaluation
Term(key) == dataset_term(Captured, cube, ModelWavel, ScaledFlux, key)

\* -0.5 * sum of log(2*pi*(sigma^2 + extra)), sigma the observed error
NormalisationOnly(key, extra) ==
    FNeg(FDivInt(FSum([i \in 1..Len(Spectrum[key].error) |->
            FLn(F((6283 * ((Spectrum[key].error[i] * Spectrum[key].error[i]) \div Milli
                             + extra)) \div Milli))]), 2))

\* scaling 1, no calibration shift, the model equal to the data point by point
RoundTrip(key) ==
    /\ Scored
    /\ DiagonalPath(key)
    /\ nuisance_value(Captured, cube, key, 1) = F(Milli)
    /\ nuisance_value(Captured, cube, key, 3) = F(0)
    /\ ModelEqualsObserved(key)

\* C22 as stated: on the diagonal path with an error offset of zero, no
\* calibration shift, scaling 1 and the model equal to the data, the term of
\* the dataset is -0.5 * sum log(2*pi*sigma^2): no residual, no extra variance.
C22_RoundTripAtZeroOffset ==
    \A key \in Range(SpectrumKeys) :
        (RoundTrip(key) /\ nuisance_value(Captured, cube, key, 2) = F(0))
        => Term(key) = NormalisationOnly(key, 0)

\* C22 amended: the term is -0.5 * sum log(2*pi*sigma^2) when the error offset
\* is not fitted (default -100, an added variance of 10^-200); the offset is a
\* log10, so a fitted value of zero adds a variance of 1 and the term is
\* -0.5 * sum log(2*pi*(sigma^2 + 1)).
C22_RoundTripAtDefaultOffset ==
    \A key \in Range(SpectrumKeys) :
        /\ (RoundTrip(key) /\ nuisance_value(Captured, cube, key, 2) = F(-100 * Milli))
           => Term(key) = NormalisationOnly(key, 0)
        /\ (RoundTrip(key) /\ nuisance_value(Captured, cube, key, 2) = F(0))
           => /\ Term(key) = NormalisationOnly(key, Milli)
              /\ Term(key) # NormalisationOnly(key, 0)

C22_Witness ==
    /\ RoundTrip("SPHERE")
    /\ ~Fitted("SPHERE", 2)
    /\ Term("SPHERE") = NormalisationOnly("SPHERE", 0)
    /\ IsFinite(Term("SPHERE"))
    /\ IsFinite(result)

\* flux_rebinned - scaling[key]*data_flux
Diff(key) ==
    LET flux_rebinned == Rebinned(key)
        scaling == nuisance_value(Captured, cube, key, 1)
    IN  [i \in 1..Len(Spectrum[key].flux) |->
            FSub(flux_rebinned[i], FMul(scaling, F(Spectrum[key].flux[i]), Milli))]

\* 10**err_offset[key], in 1/Milli
ErrFit(key) == Pow10(nuisance_value(Captured, cube, key, 2).v) \div 1000

\* -1/2 * r^T * invCov * r: the error offset does not enter
CovariancePath(key) == covariance_term(Diff(key), Spectrum[key].cov_inv)

\* -1/2 * sum(r^2/var + log(2*pi*var)), var = error^2 + 10^(2*error_offset)
IndependentGaussian(key) ==
    LET diff == Diff(key)
        err_fit == ErrFit(key)
    IN  FNeg(FDivInt(FSum([i \in 1..Len(Spectrum[key].error) |->
            LET var == (Spectrum[key].error[i] * Spectrum[key].error[i]) \div Milli
                         + (err_fit * err_fit) \div Milli
            IN  FAdd(FDiv(FMul(diff[i], diff[i], Milli), F(var)),
                     FLn(F((6283 * var) \div Milli)))]), 2))

\* the smoothness penalty of the 'free' profile, zero for the other profiles
LogPriorPenalty ==
    IF pt_profile = "free"
    THEN smoothness_prior(roughness([i \in 1..KnotCount |-> Knot(i - 1)], 1),
                          cube[cube_index["gamma_r"]])
    ELSE F(0)

\* C23: a non-rejected evaluation returns the sum over the datasets of one
\* term each plus the log-prior penalty (zero unless the profile is 'free');
\* a dataset with an inverse covariance adds -1/2 r^T invCov r, whatever its
\* error offset, every other dataset the independent-Gaussian term with
\* variance error^2 + 10^(2*error_offset); a returned evaluation that was not
\* scored returned -inf.
C23_ScoreIsSumOfTerms ==
    /\ Scored =>
          /\ \A key \in Range(SpectrumKeys) :
                Term(key) = IF Spectrum[key].cov_inv # None
                            THEN CovariancePath(key)
                            ELSE IndependentGaussian(key)
          /\ result = IF pt_profile = "free"
                       THEN FAdd(LogPriorPenalty,
                                 FSum([i \in 1..Len(SpectrumKeys) |->
                                          Term(SpectrumKeys[i])]))
                       ELSE FSum([i \in 1..Len(SpectrumKeys) |-> Term(SpectrumKeys[i])])
    /\ (ev = "returned" /\ ~Scored) => result = NInf

C23_Witness ==
    /\ Scored
    /\ pt_profile = "free"
    /\ IsFinite(result)
    /\ LogPriorPenalty # F(0)
    /\ Fitted("GRAVITY", 2)
    /\ ErrFit("GRAVITY") > 0
    /\ Sign(Term("GRAVITY")) < 0
    /\ Sign(Term("SPHERE")) < 0

(***************************************************************************)
(* Claims about the constructor (specification SpecNew) and the pressure   *)
(* levels (specification Spec).                                            *)
(***************************************************************************)
\* pressure levels i and i+1 of a logspace array compare as their log10 do
StrictlyIncreasing(a) ==
    \A i \in 0..(a.num - 2) : log_level(a, i) < log_level(a, i + 1)

\* C24: the pressure grid the constructor leaves is strictly increasing, has
\* 180 levels without and 1440 with a cloud species, no step changes it (so
\* it is the constructor's grid in every later state), and the grid handed
\* to the radiative-transfer evaluator has exactly 60 levels in both cases
\* and starts at the first level of the full grid.
C24_PressureGrid ==
    /\ [](/\ (history = <<>>) => StrictlyIncreasing(pressure)
          /\ pressure.num = IF cloud_species = <<>> THEN 180 ELSE 1440
          /\ (pc = "sampling") =>
                /\ rt_pressure.base = pressure
                /\ rt_pressure.step = IF cloud_species = <<>> THEN 3 ELSE 24
                /\ strided_size(rt_pressure) = 60
                /\ strided_level(rt_pressure, 0) = log_level(pressure, 0)
                /\ \A j \in 0..(strided_size(rt_pressure) - 1) :
                      j * rt_pressure.step < pressure.num)
    /\ [][pressure' = pressure]_vars

C24_Witness ==
    /\ pc = "sampling"
    /\ cloud_species # <<>>
    /\ pressure.num = 1440
    /\ strided_size(rt_pressure) = 60
    /\ strided_level(rt_pressure, 59) < log_level(pressure, 1439)
    /\ log_level(pressure, 0) = -6 * 1439
    /\ log_level(pressure, 1439) = 3 * 1439

\* the constructor returned or raised
Constructed == pc # "new"

\* C25: for wavelength arrays of any length >= 1 the constructor completes and
\* the bin widths of every dataset have the length of its wavelength array,
\* element i being wavelength[i+1] - wavelength[i] except for the last, which
\* equals the second-to-last.
C25_BinWidths ==
    Constructed
    => /\ pc = "idle"
       /\ \A key \in Range(SpectrumKeys) :
             LET w == spectrum[key].wavel
                 b == spectrum[key].bins
             IN  /\ b # None
                 /\ Len(b) = Len(w)
                 /\ \A i \in 1..(Len(w) - 1) : b[i] = w[i + 1] - w[i]
                 /\ Len(w) >= 2 => b[Len(w)] = b[Len(w) - 1]

(***************************************************************************)
(* Claims about the schema of a fresh object (specification Spec).         *)
(***************************************************************************)
\* one call has been made on the object and it did not raise
FirstSchema == Len(history) = 1 /\ ~history[1].raised

\* the condensates of the object, whether or not Radtrans has converted the names
Condensates == Range(converted_cloud_species(cloud_species))

IsCloudName(name) == name \in CloudBoundKeys

\* the names of the cloud block, in the order in which the schema holds them
CloudNames == SelectSeq(parameters, IsCloudName)

ExpectedCloudNames ==
    (IF "Fe(c)" \in Condensates THEN <<"fe_fraction">> ELSE <<>>)
        \o (IF "MgSiO3(c)" \in Condensates THEN <<"mgsio3_fraction">> ELSE <<>>)
        \o (IF "Na2S(c)" \in Condensates THEN <<"na2s_fraction">> ELSE <<>>)
        \o (IF "KCL(c)" \in Condensates THEN <<"kcl_fraction">> ELSE <<>>)
        \o <<"fsed", "kzz", "sigma_lnorm">>

\* the sequence block occupies consecutive places of the sequence s
Consecutive(s, block) ==
    \E k \in 0..(Len(s) - Len(block)) : SubSeq(s, k + 1, k + Len(block)) = block

\* C26: with a cloud species configured the schema holds one mass-fraction
\* name per recognized condensate of the configured set, in the order fe,
\* mgsio3, na2s, kcl whatever the order of the list, followed by fsed, kzz,
\* sigma_lnorm; with no cloud species it holds none of the seven names.
C26_CloudBlock ==
    FirstSchema
    => IF cloud_species # <<>>
       THEN /\ CloudNames = ExpectedCloudNames
            /\ Consecutive(parameters, ExpectedCloudNames)
       ELSE CloudNames = <<>>

C26_Witness ==
    /\ FirstSchema
    /\ Len(cloud_species) = 2
    /\ converted_name(cloud_species[1]) = "MgSiO3(c)"
    /\ converted_name(cloud_species[2]) = "Fe(c)"
    /\ CloudNames = <<"fe_fraction", "mgsio3_fraction", "fsed", "kzz", "sigma_lnorm">>
    /\ "log_p_quench" \in Range(parameters)

\* the number of P-T names: 6, 15 or 17
ProfileCount(pt) ==
    CASE pt = "molliere" -> 6 [] pt = "monotonic" -> 15 [] pt = "free" -> 17

ChemistryCount(chem) ==
    IF chem = "equilibrium" THEN 2 ELSE Len(line_species)

QuenchCount(quench) == IF quench THEN 1 ELSE 0

NoNuisanceBounds(b) == \A d \in Range(SpectrumKeys) : d \notin DOMAIN b

\* C27: without clouds and nuisance bounds the schema built on a fresh object
\* starts with logg, radius and has 2 + P + C + Q names, P being 6, 15 or 17
\* for 'molliere', 'monotonic', 'free' (t0..t14 in index order, then the two
\* smoothness hyperparameters), C being 2 for equilibrium chemistry and the
\* number of line species for free chemistry, Q being 1 with quenching.
C27_SchemaLength ==
    (FirstSchema /\ cloud_species = <<>> /\ NoNuisanceBounds(history[1].bounds))
    => LET h == history[1] IN
       /\ Len(parameters) = 2 + ProfileCount(h.pt_profile)
                              + ChemistryCount(h.chemistry) + QuenchCount(h.quenching)
       /\ SubSeq(parameters, 1, 2) = <<"logg", "radius">>
       /\ h.pt_profile \in {"monotonic", "free"} =>
             \A i \in 0..14 : parameters[3 + i] = "t" \o ToString(i)
       /\ h.pt_profile = "free" =>
             SubSeq(parameters, 18, 19) = <<"gamma_r", "beta_r">>
       /\ h.chemistry = "free" =>
             SubSeq(parameters, 3 + ProfileCount(h.pt_profile),
                    2 + ProfileCount(h.pt_profile) + Len(line_species)) = line_species

C27_Witness ==
    /\ FirstSchema
    /\ cloud_species = <<>>
    /\ history[1].bounds = EmptyDict
    /\ history[1].pt_profile = "free"
    /\ history[1].chemistry = "free"
    /\ Len(line_species) = 3
    /\ Len(parameters) = 22
    /\ parameters[19] = "beta_r"
    /\ parameters[22] = "K"

(***************************************************************************)
(* Claims about the pipeline of one evaluation (specification SpecEval).   *)
(***************************************************************************)
\* the log10 quench pressure the clear-sky routine is to be given
ExpectedQuench ==
    IF quenching THEN cube[cube_index["log_p_quench"]] ELSE F(-10000)

\* C28: an evaluation that returns a score has invoked exactly one
\* radiative-transfer routine: the cloud-aware one with a cloud species;
\* otherwise the clear-sky one, with C/O, metallicity and quench pressure
\* (log10 = -10 without quenching) under equilibrium chemistry, and with the
\* per-species abundance mapping and none of the three under free chemistry.
C28_OneRoutineByConfiguration ==
    Scored
    => /\ Len(rt_calls) = 1
       /\ IF cloud_species # <<>>
          THEN rt_calls[1].routine = "clouds"
          ELSE IF chemistry = "equilibrium"
          THEN /\ rt_calls[1].routine = "clear"
               /\ rt_calls[1].c_o_ratio = cube[cube_index["c_o_ratio"]]
               /\ rt_calls[1].metallicity = cube[cube_index["metallicity"]]
               /\ rt_calls[1].log_p_quench = ExpectedQuench
               /\ rt_calls[1].log_x_abund = None
          ELSE /\ rt_calls[1].routine = "clear"
               /\ DOMAIN rt_calls[1].log_x_abund = Range(line_species)
               /\ \A item \in Range(line_species) :
                     rt_calls[1].log_x_abund[item] = cube[cube_index[item]]
               /\ rt_calls[1].c_o_ratio = None
               /\ rt_calls[1].metallicity = None
               /\ rt_calls[1].log_p_quench = None

C28_Witness ==
    /\ Scored
    /\ IsFinite(result)
    /\ cloud_species = <<>>
    /\ chemistry = "equilibrium"
    /\ ~quenching
    /\ rt_calls[1].routine = "clear"
    /\ rt_calls[1].log_p_quench = F(-10000)
    /\ rt_calls[1].c_o_ratio = F(850)

\* the evaluation returned without reaching the score
Rejected == ev = "returned" /\ ~Scored

\* the stages that follow a spectrum that was accepted
LaterStages == {"scale", "convolve", "rebin", "score"}

\* the P-T stage ran and gave a negative temperature
NegativeTemperature ==
    "pt" \in Range(stages) /\ \E i \in 1..Len(ext.temp) : ext.temp[i] < 0

\* the free-chemistry tests were reached and one of them failed
AbundanceViolation ==
    /\ cloud_species = <<>>
    /\ chemistry = "free"
    /\ "pt" \in Range(stages)
    /\ ~NegativeTemperature
    /\ \/ SeqSum([i \in 1..Len(line_species) |->
                     Pow10(cube[cube_index[line_species[i]]].v)]) > 1000000
       \/ /\ "ratio" \in Range(stages)
          /\ \/ RatioViolated("c_h_ratio", ext.ratio[1])
             \/ RatioViolated("o_h_ratio", ext.ratio[2])

\* C29: an evaluation that detects a reject condition returns -inf and runs no
\* later stage: a negative temperature or a free-chemistry abundance or ratio
\* violation is detected before any radiative-transfer call, and a rejected
\* spectrum is never scaled, convolved, rebinned, scored or plotted.
C29_RejectShortCircuits ==
    /\ Rejected
          => /\ result = NInf
             /\ Range(stages) \cap LaterStages = {}
             /\ pdf = <<>>
    /\ (Evaluated /\ NegativeTemperature)
          => (Rejected /\ rt_calls = <<>> /\ stages = <<"pt">>)
    /\ (Evaluated /\ AbundanceViolation)
          => (Rejected /\ rt_calls = <<>>)
    /\ (SpectrumReturned /\ \E j \in 1..Len(ext.rt.flux) : IsNaN(ext.rt.flux[j]))
          => (Rejected /\ Len(rt_calls) = 1)
    /\ pdf # <<>> => Scored

C29_Witness ==
    /\ Rejected
    /\ plotting
    /\ Len(rt_calls) = 1
    /\ \E j \in 1..Len(ext.rt.flux) : IsNaN(ext.rt.flux[j])
    /\ stages = <<"pt", "rt">>
    /\ result = NInf
    /\ pdf = <<>>

\* C30: for every configuration set_parameters accepts, every name the prior
\* transform or the likelihood looks up in cube_index is a name of the schema:
\* no evaluation ends in a KeyError, in particular not for 'molliere' with
\* free chemistry and not for any configured cloud species.
C30_NoMissingIndex ==
    Transformed => err # "KeyError"

====
